---- MODULE Spec2Model ----
(***************************************************************************)
(* Eventuro DHCP server: the lease store (db_manager.py), the DHCP engine  *)
(* (dhcp_server.py) with its retransmission caches, the expiry sweeper and *)
(* the admin routes of web_server.py that write the lease table.           *)
(*                                                                         *)
(* Addresses are host numbers inside the server subnet; 0 stands for NULL  *)
(* (None, and 0.0.0.0 in a packet).  Time is a discrete clock; NoTime      *)
(* stands for a NULL expire_at.  The lease_history table is append-only    *)
(* and never read by the operations modelled here, so a handler carries    *)
(* the rows it appends (field h of its store) and the state keeps none.    *)
(***************************************************************************)
EXTENDS Integers, Sequences, FiniteSets, TLC

\* ---------------------------------------------------------------- bounds
MaxTime == 2
NumMacs == 3
NumDevices == 2
MaxIp == 4
MaxXid == 1
MaxCached == 1

\* ------------------------------------------------- program configuration
pool_start_int == 2
pool_end_int == 3
lease_time == 2
cache_ttl == 1
start_ip_int == 2
end_ip_int == 6

NULL == 0
NoTime == -1

MACS == 1..NumMacs
Devices == 1..NumDevices
IPS == 2..MaxIp
XIDS == 1..MaxXid
Pool == pool_start_int..pool_end_int
\* the ciaddr of the INFORM packets that arrive
InformAddrs == {pool_start_int}
\* the addresses the administrator binds: in the pool and above it
StaticIps == pool_end_int..MaxIp

\* ------------------------------------------------------------ lease rows
\* One row of table leases (exists = FALSE: no row for that mac).
NoRow ==
  [exists |-> FALSE, ip |-> NULL, lease_type |-> "DYNAMIC", expire_at |-> NoTime,
   is_expired |-> 0, is_blocked |-> 0, deleted |-> FALSE]

Live(L, mac) == L[mac].exists /\ ~L[mac].deleted

\* A store under one handler: the table, the history rows appended so far,
\* and whether an exception has been raised (the handler is then abandoned;
\* what was committed before stays).
Store(L) == [l |-> L, h |-> <<>>, ok |-> TRUE]

Raise(D) == [D EXCEPT !.ok = FALSE]

Event(mac, action, ip, new_ip, channel) ==
  [mac |-> mac, action |-> action, ip |-> ip, new_ip |-> new_ip, channel |-> channel]

_insert_history(D, mac, action, ip, new_ip, channel) ==
  [D EXCEPT !.h = Append(@, Event(mac, action, ip, new_ip, channel))]

\* Fault: table leases created without the UNIQUE constraint on ip.
UniqueIpOk_NoConstraint(L, mac, ip) == TRUE

\* ip TEXT UNIQUE: no other row of the table (deleted or not) holds ip.
UniqueIpOk(L, mac, ip) ==
  ip = NULL \/ \A o \in MACS : (o # mac /\ L[o].exists) => L[o].ip # ip

is_device_blocked(L, mac) == Live(L, mac) /\ L[mac].is_blocked = 1

\* Fault: the WHERE clause without is_expired = 0.
Expirable_IgnoresFlag(L, t) ==
  {m \in MACS : /\ Live(L, m)
                /\ L[m].lease_type = "DYNAMIC"
                /\ L[m].expire_at # NoTime
                /\ L[m].expire_at <= t}

\* The rows mark_expired_leases selects.
Expirable(L, t) ==
  {m \in MACS : /\ Live(L, m)
                /\ L[m].lease_type = "DYNAMIC"
                /\ L[m].expire_at # NoTime
                /\ L[m].expire_at <= t
                /\ L[m].is_expired = 0}

RECURSIVE ExpiredEvents(_, _)
ExpiredEvents(L, S) ==
  IF S = {} THEN <<>>
  ELSE LET m == CHOOSE x \in S : \A y \in S : x <= y
       IN  <<Event(m, "LEASE_EXPIRED", L[m].ip, NULL, "DHCP")>> \o ExpiredEvents(L, S \ {m})

mark_expired_leases(D, t) ==
  LET S == Expirable(D.l, t)
  IN  [D EXCEPT !.h = @ \o ExpiredEvents(D.l, S),
                !.l = [m \in MACS |->
                         IF m \in S THEN [D.l[m] EXCEPT !.is_expired = 1, !.ip = NULL]
                         ELSE D.l[m]]]

\* Fault: the UPDATE sets is_expired and leaves ip in place.
mark_lease_expired_KeepsIp(D, mac, ip) ==
  IF Live(D.l, mac) /\ ip # NULL /\ D.l[mac].ip = ip /\ D.l[mac].lease_type = "DYNAMIC"
  THEN [_insert_history(D, mac, "LEASE_RELEASED", ip, NULL, "DHCP")
          EXCEPT !.l[mac].is_expired = 1]
  ELSE D

mark_lease_expired(D, mac, ip) ==
  IF Live(D.l, mac) /\ ip # NULL /\ D.l[mac].ip = ip /\ D.l[mac].lease_type = "DYNAMIC"
  THEN [_insert_history(D, mac, "LEASE_RELEASED", ip, NULL, "DHCP")
          EXCEPT !.l[mac].is_expired = 1, !.l[mac].ip = NULL]
  ELSE D

block_device(D, mac) ==
  IF Live(D.l, mac)
  THEN [_insert_history(D, mac, "DEVICE_BLOCKED", D.l[mac].ip, NULL, "DHCP")
          EXCEPT !.l[mac].is_blocked = 1, !.l[mac].ip = NULL, !.l[mac].is_expired = 1]
  ELSE D

unblock_device(D, mac) ==
  IF Live(D.l, mac)
  THEN [_insert_history(D, mac, "DEVICE_UNBLOCKED", NULL, NULL, "DHCP")
          EXCEPT !.l[mac].is_blocked = 0]
  ELSE D

UsedIps(L) == {L[m].ip : m \in {x \in MACS : Live(L, x) /\ L[x].ip # NULL}}

\* for ip_int in range(pool_start_int, pool_end_int + 1): the first unused
RECURSIVE ScanPool(_, _)
ScanPool(used_ips, ip_int) ==
  IF ip_int > pool_end_int THEN NULL
  ELSE IF ip_int \notin used_ips THEN ip_int
  ELSE ScanPool(used_ips, ip_int + 1)

\* Fault: the scan runs from the end of the pool downwards.
RECURSIVE ScanPoolDown(_, _)
ScanPoolDown(used_ips, ip_int) ==
  IF ip_int < pool_start_int THEN NULL
  ELSE IF ip_int \notin used_ips THEN ip_int
  ELSE ScanPoolDown(used_ips, ip_int - 1)

_get_new_dynamic_ip_FromEnd(L) == ScanPoolDown(UsedIps(L), pool_end_int)

_get_new_dynamic_ip(L) == ScanPool(UsedIps(L), pool_start_int)

\* DBManager.find_free_ip: the store after the call and the pair it returns.
\* ip_to_int(None) raises for a DYNAMIC row that is not expired and has no ip.
\* D1 is the store once mark_expired_leases has run.
find_free_ip_select(D1, mac, t) ==
  LET r == D1.l[mac]
  IN  IF Live(D1.l, mac) /\ r.lease_type = "STATIC" /\ r.ip # NULL
        THEN [d |-> D1, ip |-> r.ip, lease_type |-> "STATIC"]
      ELSE IF /\ Live(D1.l, mac) /\ r.lease_type = "DYNAMIC" /\ r.is_expired = 0
              /\ r.expire_at # NoTime /\ r.expire_at > t
        THEN IF r.ip = NULL
               THEN [d |-> Raise(D1), ip |-> NULL, lease_type |-> "DYNAMIC"]
             ELSE IF r.ip \in Pool
               THEN [d |-> D1, ip |-> r.ip, lease_type |-> "DYNAMIC"]
             ELSE [d |-> D1, ip |-> _get_new_dynamic_ip(D1.l), lease_type |-> "DYNAMIC"]
      ELSE [d |-> D1, ip |-> _get_new_dynamic_ip(D1.l), lease_type |-> "DYNAMIC"]

db_find_free_ip(D, mac, t) == find_free_ip_select(mark_expired_leases(D, t), mac, t)

\* Fault: an address outside the pool is dropped whatever the lease type.
find_free_ip_in_pool_AnyType(f) ==
  IF f.ip # NULL /\ f.ip \notin Pool
    THEN [d |-> f.d, ip |-> NULL]
  ELSE [d |-> f.d, ip |-> f.ip]

\* DHCPServer.find_free_ip
\* f is what DBManager.find_free_ip returned: a DYNAMIC address outside the
\* pool is dropped.
find_free_ip_in_pool(f) ==
  IF f.ip # NULL /\ f.ip \notin Pool /\ f.lease_type = "DYNAMIC"
    THEN [d |-> f.d, ip |-> NULL]
  ELSE [d |-> f.d, ip |-> f.ip]

find_free_ip(D, mac, t) ==
  IF is_device_blocked(D.l, mac) THEN [d |-> D, ip |-> NULL]
  ELSE find_free_ip_in_pool(db_find_free_ip(D, mac, t))

create_lease(D, mac, ip, lease_type, channel, t) ==
  IF is_device_blocked(D.l, mac) \/ ip = NULL THEN D
  ELSE IF D.l[mac].exists \/ ~UniqueIpOk(D.l, mac, ip) THEN Raise(D)
  ELSE LET row == [exists |-> TRUE, ip |-> ip, lease_type |-> lease_type,
                   expire_at |-> IF lease_type = "STATIC" THEN NoTime ELSE t + lease_time,
                   is_expired |-> 0, is_blocked |-> 0, deleted |-> FALSE]
           D1 == _insert_history([D EXCEPT !.l[mac] = row], mac, "CLIENT_CREATE", NULL, ip, channel)
       IN  IF lease_type = "DYNAMIC"
             THEN _insert_history(D1, mac, "LEASE_ISSUED", NULL, ip, channel)
           ELSE D1

\* DBManager.update_ip from `with self.get_connection()` on: its transaction.
update_ip_write(D, mac, new_ip, channel, t) ==
  IF ~Live(D.l, mac) THEN D
  ELSE IF new_ip = D.l[mac].ip \/ new_ip = NULL THEN D
  ELSE IF ~UniqueIpOk(D.l, mac, new_ip) THEN Raise(D)
  ELSE LET r == D.l[mac]
           D1 == [D EXCEPT !.l[mac].ip = new_ip,
                           !.l[mac].expire_at =
                              IF r.lease_type = "DYNAMIC" THEN t + lease_time ELSE NoTime,
                           !.l[mac].is_expired = 0]
       IN  _insert_history(D1, mac,
                           IF r.lease_type = "STATIC" THEN "STATIC_ASSIGNED" ELSE "LEASE_ISSUED",
                           r.ip, new_ip, channel)

\* DBManager.update_ip: the blocked check on a connection of its own, then
\* the transaction.
update_ip(D, mac, new_ip, channel, t) ==
  IF is_device_blocked(D.l, mac) THEN D
  ELSE update_ip_write(D, mac, new_ip, channel, t)

\* Fault: a STATIC lease is renewed like a DYNAMIC one.
renew_lease_AnyType(D, mac, channel, t) ==
  IF is_device_blocked(D.l, mac) \/ ~Live(D.l, mac) THEN D
  ELSE _insert_history([D EXCEPT !.l[mac].expire_at = t + lease_time],
                       mac, "LEASE_RENEWED", D.l[mac].ip, NULL, channel)

renew_lease(D, mac, channel, t) ==
  IF is_device_blocked(D.l, mac) \/ ~Live(D.l, mac) THEN D
  ELSE IF D.l[mac].lease_type # "DYNAMIC" THEN D
  ELSE _insert_history([D EXCEPT !.l[mac].expire_at = t + lease_time],
                       mac, "LEASE_RENEWED", D.l[mac].ip, NULL, channel)

\* Fault: the UPDATE leaves expire_at as it is when the row becomes STATIC.
update_lease_type_KeepsExpiry(D, mac, lease_type, channel, t) ==
  IF is_device_blocked(D.l, mac) \/ ~Live(D.l, mac) THEN D
  ELSE IF lease_type = D.l[mac].lease_type THEN D
  ELSE _insert_history(
         [D EXCEPT !.l[mac].lease_type = lease_type,
                   !.l[mac].expire_at = IF lease_type = "STATIC" THEN @ ELSE t + lease_time,
                   !.l[mac].is_expired = 0],
         mac, IF lease_type = "STATIC" THEN "STATIC_ASSIGNED" ELSE "DYNAMIC_ASSIGNED",
         D.l[mac].ip, D.l[mac].ip, channel)

update_lease_type(D, mac, lease_type, channel, t) ==
  IF is_device_blocked(D.l, mac) \/ ~Live(D.l, mac) THEN D
  ELSE IF lease_type = D.l[mac].lease_type THEN D
  ELSE _insert_history(
         [D EXCEPT !.l[mac].lease_type = lease_type,
                   !.l[mac].expire_at = IF lease_type = "STATIC" THEN NoTime ELSE t + lease_time,
                   !.l[mac].is_expired = 0],
         mac, IF lease_type = "STATIC" THEN "STATIC_ASSIGNED" ELSE "DYNAMIC_ASSIGNED",
         D.l[mac].ip, D.l[mac].ip, channel)

\* DBManager.decline_lease: the store after the call and the new ip (or NULL).
\* The pool scan runs on the cursor that has just cleared the declined ip.
\* D1 is the store with the declined ip cleared, new_ip the address the pool
\* scan found on it, D the store before the call.
decline_lease_assign(D, D1, mac, ip, new_ip, t) ==
  IF new_ip = NULL THEN [d |-> D1, ip |-> NULL]
  ELSE IF ~UniqueIpOk(D1.l, mac, new_ip)
    THEN [d |-> Raise(_insert_history(D, mac, "DECLINE", ip, NULL, "DHCP")), ip |-> NULL]
  ELSE [d |-> [_insert_history(D1, mac, "LEASE_ISSUED", NULL, new_ip, "DHCP")
                 EXCEPT !.l[mac].ip = new_ip, !.l[mac].is_expired = 0,
                        !.l[mac].expire_at = t + lease_time],
        ip |-> new_ip]

decline_lease_scan(D, D1, mac, ip, t) ==
  decline_lease_assign(D, D1, mac, ip, _get_new_dynamic_ip(D1.l), t)

db_decline_lease(D, mac, ip, t) ==
  IF is_device_blocked(D.l, mac) THEN [d |-> D, ip |-> NULL]
  ELSE IF ~(Live(D.l, mac) /\ ip # NULL /\ D.l[mac].ip = ip /\ D.l[mac].lease_type = "DYNAMIC")
    THEN [d |-> D, ip |-> NULL]
  ELSE decline_lease_scan(D, [_insert_history(D, mac, "DECLINE", ip, NULL, "DHCP")
                                EXCEPT !.l[mac].is_expired = 1, !.l[mac].ip = NULL],
                          mac, ip, t)

\* nak_lease / inform_lease: a history row only when mac's live row holds ip.
nak_lease(D, mac, ip) ==
  IF Live(D.l, mac) /\ ip # NULL /\ D.l[mac].ip = ip
  THEN _insert_history(D, mac, "NAK", ip, NULL, "DHCP") ELSE D

inform_lease(D, mac, ip) ==
  IF Live(D.l, mac) /\ ip # NULL /\ D.l[mac].ip = ip
  THEN _insert_history(D, mac, "INFORM", ip, NULL, "DHCP") ELSE D

delete(D, mac) ==
  IF Live(D.l, mac)
  THEN [_insert_history(D, mac, "DEVICE_DELETED", D.l[mac].ip, NULL, "DHCP")
          EXCEPT !.l[mac].deleted = TRUE, !.l[mac].lease_type = "DYNAMIC"]
  ELSE D

\* DBManager.get_lease_type does not filter on deleted_at.
get_lease_type(L, mac) == IF L[mac].exists THEN L[mac].lease_type ELSE "DYNAMIC"

\* --------------------------------------------------------------- engine
VARIABLES
  leases,          \* table leases: mac -> row
  now,             \* the clock
  discover_cache,  \* (xid, mac) -> entry
  request_cache,   \* (xid, mac, requested_ip) -> entry
  inform_cache,    \* (xid, mac, ciaddr) -> entry
  pending          \* the REQUEST the engine thread is in the middle of

\* DHCPServer's threads and main()'s position around start() and stop().
VARIABLES
  stop_event,          \* threading.Event
  thread,              \* the thread of run()
  lease_check_thread,  \* the thread of periodic_lease_check()
  metrics_thread,      \* the thread of periodic_metrics_flush()
  main                 \* main(): before start(), serving, or after stop()

threads == <<stop_event, thread, lease_check_thread, metrics_thread, main>>

\* The response cache of the per-node API, and the proxy process.
VARIABLES
  api_cache,             \* web_server: key -> (response, creation_time)
  _cache,                \* proxy: key -> response
  _cache_ts,             \* proxy: key -> time of set_cached
  duplicate_mac_policy,  \* proxy: cfg["duplicate_mac_policy"]
  responses,             \* proxy: the upstream answers handed to merge_clients
  clients                \* proxy: what merge_clients returned for them

\* What DHCPServer never writes.
beyond == <<api_cache, _cache, _cache_ts, duplicate_mac_policy, responses, clients>>

\* The positions of threads inside calls that the sections above take as
\* one step, with what those calls leave behind.
VARIABLES
  db_call,        \* the engine inside DBManager.update_ip, past its blocked check
  sweeps,         \* caller of mark_expired_leases -> the rows its SELECT returned
  lease_history,  \* table lease_history: the LEASE_EXPIRED rows
  metrics,        \* DHCPServer.metrics: message type -> count (0: no such key)
  increment,      \* the engine inside `self.metrics[k] += 1`: the count it read
  flusher,        \* periodic_metrics_flush: asleep, or between write and clear
  sink,           \* message type -> the sum of the counts the sink was sent
  counted         \* message type -> the number of increments the engine made

gauge == <<metrics, increment, flusher, sink, counted>>

inner == <<db_call, sweeps, lease_history, gauge>>

\* What the engine's handlers and the web routes never write.
outside == <<threads, beyond, inner>>

vars == <<leases, now, discover_cache, request_cache, inform_cache, pending, outside>>

NoEntry == [present |-> FALSE, type |-> "NONE", yiaddr |-> NULL, expire_at |-> NoTime]
Entry(type, yiaddr, exp) == [present |-> TRUE, type |-> type, yiaddr |-> yiaddr, expire_at |-> exp]
Packet(type, yiaddr) == [type |-> type, yiaddr |-> yiaddr]
NoPacket == Packet("NONE", NULL)
NakPacket == Packet("NAK", NULL)

DKeys == XIDS \X MACS
RKeys == XIDS \X MACS \X ({NULL} \cup IPS)
IKeys == XIDS \X MACS \X InformAddrs

\* Fault: the retransmission caches are never consulted.
CacheHit_Never(cache, key, t) == FALSE

\* Fault: an entry is served for as long as it is in the cache.
CacheHit_Unpurged(cache, key, t) == cache[key].present

\* cache_key in cache and cache[cache_key]['expire_at'] > current_time
CacheHit(cache, key, t) == cache[key].present /\ cache[key].expire_at > t

\* Fault: the reply to a retransmission is rebuilt without the cached yiaddr.
CachedPacket_NoAddress(cache, key) == Packet(cache[key].type, NULL)

CachedPacket(cache, key) == Packet(cache[key].type, cache[key].yiaddr)

NoPending ==
  [active |-> FALSE, mac |-> 0, xid |-> 0, req |-> NULL, yiaddr |-> NULL,
   lease_type |-> "DYNAMIC", t0 |-> 0]

\* DHCPServer.update_lease, after its update_ip (D1): the lease type.
update_lease_retype(D1, mac, lease_type, old_lease_type, t) ==
  IF D1.ok /\ lease_type # old_lease_type
    THEN update_lease_type(D1, mac, lease_type, "DHCP", t)
  ELSE D1

\* DHCPServer.update_lease (hostname and client_id are not modelled).
update_lease(D, mac, ip, lease_type, t) ==
  IF is_device_blocked(D.l, mac) THEN D
  ELSE IF D.l[mac].exists
    THEN IF D.l[mac].deleted
           THEN update_ip(_insert_history([D EXCEPT !.l[mac].deleted = FALSE],
                                          mac, "DEVICE_RESTORED", NULL, NULL, "DHCP"),
                          mac, ip, "DHCP", t)
         ELSE IF ip = D.l[mac].ip /\ lease_type = D.l[mac].lease_type
           THEN renew_lease(D, mac, "DHCP", t)
         ELSE update_lease_retype(
                IF ip # D.l[mac].ip /\ ip # NULL THEN update_ip(D, mac, ip, "DHCP", t) ELSE D,
                mac, lease_type, D.l[mac].lease_type, t)
  ELSE create_lease(D, mac, ip, lease_type, "DHCP", t)

\* The result of handling one packet: the store, the packet sent, the entry
\* to put in the handler's cache (NoEntry: none).
Result(D, pkt, entry) == [d |-> D, sent |-> pkt, entry |-> entry]

\* run(): the blocked check, first for every message type.
BlockedNak(L, mac, ip) == Result(nak_lease(Store(L), mac, ip), NakPacket, NoEntry)

\* run(), msg_type == 1, after yiaddr = self.find_free_ip(mac) (f).
Offer(f, mac, t) ==
  IF ~f.d.ok \/ f.ip = NULL THEN Result(f.d, NoPacket, NoEntry)
  ELSE IF f.ip \notin Pool /\ get_lease_type(f.d.l, mac) = "DYNAMIC"
    THEN Result(f.d, NoPacket, NoEntry)
  ELSE Result(f.d, Packet("OFFER", f.ip), Entry("OFFER", f.ip, t + cache_ttl))

\* Fault: DISCOVER consults the retransmission cache before the blocked check.
OnDiscover_CacheFirst(L, cache, mac, xid, t) ==
  IF CacheHit(cache, <<xid, mac>>, t)
    THEN Result(Store(L), CachedPacket(cache, <<xid, mac>>), NoEntry)
  ELSE IF is_device_blocked(L, mac) THEN BlockedNak(L, mac, NULL)
  ELSE Offer(find_free_ip(Store(L), mac, t), mac, t)

\* run(), msg_type == 1
OnDiscover(L, cache, mac, xid, t) ==
  IF is_device_blocked(L, mac) THEN BlockedNak(L, mac, NULL)
  ELSE IF CacheHit(cache, <<xid, mac>>, t)
    THEN Result(Store(L), CachedPacket(cache, <<xid, mac>>), NoEntry)
  ELSE Offer(find_free_ip(Store(L), mac, t), mac, t)

\* Fault: a STATIC binding does not restrict the address requested.
StaticMismatch_Never(requested_ip, static_ip) == FALSE

\* if requested_ip and requested_ip != static_ip
StaticMismatch(requested_ip, static_ip) == requested_ip # NULL /\ requested_ip # static_ip

\* Fault: the handler does not look for another holder of the address.
TakenByOther_Never(L, mac, ip) == FALSE

\* SELECT mac FROM leases WHERE ip = ? AND mac != ? AND deleted_at IS NULL
TakenByOther(L, mac, ip) == \E o \in MACS : o # mac /\ Live(L, o) /\ L[o].ip = ip

\* run(), msg_type == 3, up to the call of update_lease: what the handler
\* decided (kind), the store so far, and the address and type to commit.
Dec(kind, d, yiaddr, lease_type) ==
  [kind |-> kind, d |-> d, yiaddr |-> yiaddr, lease_type |-> lease_type]

\* Fault: no NAK when find_free_ip returns None.
RequestFree_Silent(f, mac) ==
  IF ~f.d.ok \/ f.ip = NULL THEN Dec("raise", f.d, NULL, "DYNAMIC")
  ELSE Dec("commit", f.d, f.ip, "DYNAMIC")

\* REQUEST without requested_ip, after yiaddr = self.find_free_ip(mac) (f).
RequestFree(f, mac) ==
  IF ~f.d.ok THEN Dec("raise", f.d, NULL, "DYNAMIC")
  ELSE IF f.ip = NULL THEN Dec("nak", nak_lease(f.d, mac, NULL), NULL, "DYNAMIC")
  ELSE Dec("commit", f.d, f.ip, "DYNAMIC")

RequestDecide(L, cache, mac, xid, req, t) ==
  IF is_device_blocked(L, mac) THEN Dec("nak", nak_lease(Store(L), mac, req), NULL, "DYNAMIC")
  ELSE IF CacheHit(cache, <<xid, mac, req>>, t) THEN Dec("hit", Store(L), NULL, "DYNAMIC")
  ELSE IF Live(L, mac) /\ L[mac].lease_type = "STATIC"
    THEN IF StaticMismatch(req, L[mac].ip)
           THEN Dec("nak", nak_lease(Store(L), mac, req), NULL, "STATIC")
         ELSE Dec("commit", Store(L), L[mac].ip, "STATIC")
  ELSE IF req # NULL
    THEN IF req \notin Pool THEN Dec("nak", nak_lease(Store(L), mac, req), NULL, "DYNAMIC")
         ELSE IF TakenByOther(L, mac, req)
           THEN Dec("nak", nak_lease(Store(L), mac, req), NULL, "DYNAMIC")
         ELSE Dec("commit", Store(L), req, "DYNAMIC")
  ELSE RequestFree(find_free_ip(Store(L), mac, t), mac)

\* The ACK once update_lease has returned D1. build_packet raises on a None
\* yiaddr.
Ack(D1, yiaddr, exp) ==
  IF ~D1.ok \/ yiaddr = NULL THEN Result(Raise(D1), NoPacket, NoEntry)
  ELSE Result(D1, Packet("ACK", yiaddr), Entry("ACK", yiaddr, exp))

\* run(), msg_type == 3, from update_lease to sendto. t0 is current_time of
\* line 280, t the time of the store calls.
RequestCommit(D, mac, yiaddr, lease_type, t0, t) ==
  Ack(update_lease(D, mac, yiaddr, lease_type, t), yiaddr, t0 + cache_ttl)

\* The reply to a REQUEST, given what the handler decided.
RequestReply(dec, cache, mac, xid, req, t) ==
  CASE dec.kind = "nak" -> Result(dec.d, NakPacket, NoEntry)
    [] dec.kind = "hit" -> Result(dec.d, CachedPacket(cache, <<xid, mac, req>>), NoEntry)
    [] dec.kind = "raise" -> Result(dec.d, NoPacket, NoEntry)
    [] OTHER -> RequestCommit(dec.d, mac, dec.yiaddr, dec.lease_type, t, t)

OnRequest(L, cache, mac, xid, req, t) ==
  RequestReply(RequestDecide(L, cache, mac, xid, req, t), cache, mac, xid, req, t)

\* DHCPServer.decline_lease and run(), msg_type == 4
DeclineAck(D1, new_ip) ==
  IF ~D1.ok THEN Result(D1, NoPacket, NoEntry)
  ELSE Result(D1, Packet("ACK", new_ip), NoEntry)

\* Fault: the address decline_lease committed is not acknowledged.
DeclineReply_Silent(r, mac, t) == Result(r.d, NoPacket, NoEntry)

\* run(), msg_type == 4, after new_ip = self.decline_lease(mac, requested_ip) (r).
DeclineReply(r, mac, t) ==
  IF ~r.d.ok \/ r.ip = NULL THEN Result(r.d, NoPacket, NoEntry)
  ELSE DeclineAck(update_lease(r.d, mac, r.ip, "DYNAMIC", t), r.ip)

OnDecline(L, mac, req, t) ==
  IF is_device_blocked(L, mac) THEN BlockedNak(L, mac, req)
  ELSE DeclineReply(db_decline_lease(Store(L), mac, req, t), mac, t)

\* DHCPServer.release_lease and run(), msg_type == 7
OnRelease(L, mac, ciaddr) ==
  IF is_device_blocked(L, mac) THEN BlockedNak(L, mac, ciaddr)
  ELSE IF ciaddr = NULL THEN Result(Store(L), NoPacket, NoEntry)
  ELSE Result(mark_lease_expired(Store(L), mac, ciaddr), NoPacket, NoEntry)

\* DHCPServer.inform_client and run(), msg_type == 8
OnInform(L, cache, mac, xid, ciaddr, t) ==
  IF is_device_blocked(L, mac) THEN BlockedNak(L, mac, ciaddr)
  ELSE IF CacheHit(cache, <<xid, mac, ciaddr>>, t)
    THEN Result(Store(L), CachedPacket(cache, <<xid, mac, ciaddr>>), NoEntry)
  ELSE Result(inform_lease(Store(L), mac, ciaddr), Packet("ACK", NULL),
              Entry("ACK", NULL, t + cache_ttl))

\* run(), except socket.timeout: drop the entries with expire_at <= current_time
PurgeExpired(cache, t) ==
  [k \in DOMAIN cache |-> IF cache[k].present /\ cache[k].expire_at <= t THEN NoEntry ELSE cache[k]]

\* ----------------------------------------------------------- web routes
InSubnetRange(ip) == start_ip_int <= ip /\ ip <= end_ip_int

HeldByOther(L, mac, ip) == \E o \in MACS : o # mac /\ Live(L, o) /\ L[o].ip = ip

\* update_lease_type(mac, 'STATIC') once update_ip has returned D1.
then_static(D1, mac, t) ==
  IF D1.ok THEN update_lease_type(D1, mac, "STATIC", "WEB", t) ELSE D1

route_set_static(D, mac, ip, t) ==
  IF ~InSubnetRange(ip) \/ HeldByOther(D.l, mac, ip) THEN D
  ELSE IF ~Live(D.l, mac) \/ D.l[mac].lease_type = "STATIC" THEN D
  ELSE then_static(update_ip(D, mac, ip, "WEB", t), mac, t)

route_add_static(D, mac, ip, t) ==
  IF ~InSubnetRange(ip) THEN D
  ELSE IF Live(D.l, mac)
    THEN IF D.l[mac].lease_type = "STATIC" \/ HeldByOther(D.l, mac, ip) THEN D
         ELSE then_static(update_ip(D, mac, ip, "WEB", t), mac, t)
  ELSE IF \E o \in MACS : Live(D.l, o) /\ D.l[o].ip = ip THEN D
  ELSE create_lease(D, mac, ip, "STATIC", "WEB", t)

route_set_dynamic(D, mac, t) ==
  IF Live(D.l, mac) THEN update_lease_type(D, mac, "DYNAMIC", "WEB", t) ELSE D

\* The route's UPDATE is not committed when it calls update_lease_type, which
\* reads the committed row on a connection of its own: for a DYNAMIC (or
\* blocked) row it returns and the route commits; for a STATIC row its UPDATE
\* finds the database locked, raises, and the route's UPDATE is rolled back.
\* The LEASE_RESET history row is in the other database and stays.
route_reset_lease(D, mac, t) ==
  IF ~Live(D.l, mac) \/ D.l[mac].ip = NULL THEN D
  ELSE LET D1 == _insert_history(D, mac, "LEASE_RESET", D.l[mac].ip, NULL, "WEB")
       IN  IF is_device_blocked(D.l, mac) \/ D.l[mac].lease_type = "DYNAMIC"
             THEN [D1 EXCEPT !.l[mac].is_expired = 1, !.l[mac].expire_at = t, !.l[mac].ip = NULL]
           ELSE Raise(D1)

route_delete(D, mac) ==
  IF Live(D.l, mac) /\ D.l[mac].ip = NULL /\ D.l[mac].is_expired = 1 THEN delete(D, mac) ELSE D

\* -------------------------------------------------------------- actions
Present(cache) == {k \in DOMAIN cache : cache[k].present}

CacheCount(dc, rc, ic) == Cardinality(Present(dc)) + Cardinality(Present(rc)) + Cardinality(Present(ic))

\* The packets the model lets arrive keep at most MaxCached cache entries.
CacheRoom(dc, rc, ic) ==
  \/ CacheCount(dc, rc, ic) <= MaxCached
  \/ CacheCount(dc, rc, ic) <= CacheCount(discover_cache, request_cache, inform_cache)

Put(cache, key, entry) == IF entry.present THEN [cache EXCEPT ![key] = entry] ELSE cache

EngineIdle == ~pending.active

\* ------------------------------------------------- the response caches
\* web_server.create_app: api_cache is keyed by the requested ip, and by
\* "all_clients" for the list.
all_clients == 0
ApiKeys == {all_clients} \cup IPS

\* A response body of the per-node API: an error, one client, or the list.
Response(error, mac, ip, listed, is_cached) ==
  [error |-> error, mac |-> mac, ip |-> ip, clients |-> listed, is_cached |-> is_cached]

NoCached == [present |-> FALSE, response |-> Response("", NULL, NULL, {}, FALSE),
             creation_time |-> NoTime]

\* dhcp_api_proxy: _cache is keyed by "client:<ip>" and by "all_clients".
NumNets == 3
SubnetSize == 2
ProxyIps == {(n * SubnetSize) + 1 : n \in 1..NumNets}
ProxyKeys == {all_clients} \cup ProxyIps

\* A response body of the proxy: an error or one client (ip), or the merged
\* list with its error map; None when nothing is cached.
ProxyResponse(error, ip, merged, errors, is_cached) ==
  [none |-> FALSE, error |-> error, ip |-> ip, clients |-> merged, total |-> Len(merged),
   errors |-> errors, is_cached |-> is_cached]

\* errors or None: the error map, null when empty
OrNone(errors) == [null |-> errors = {}, of |-> errors]

NoValue == [ProxyResponse("", NULL, <<>>, OrNone({}), FALSE) EXCEPT !.none = TRUE]

\* The processes as started: the node with an empty lease table, the proxy
\* with the policy of its configuration and the upstream answers it will merge.
\* The threads that call mark_expired_leases: the sweeper, and the engine
\* or a web thread.
NumSweepers == 2
Sweepers == 1..NumSweepers
NoSweep == [selected |-> FALSE, rows |-> {}, current_time |-> 0]

\* The message types counted: one received, one sent.
NumTypes == 2
MsgTypes == 1..NumTypes
NoIncrement == [active |-> FALSE, key |-> 1, value |-> 0]

NoCall == [active |-> FALSE, retype |-> FALSE, old_lease_type |-> "DYNAMIC"]

Loaded(policy, answers) ==
  /\ leases = [m \in MACS |-> NoRow]
  /\ now = 0
  /\ discover_cache = [k \in DKeys |-> NoEntry]
  /\ request_cache = [k \in RKeys |-> NoEntry]
  /\ inform_cache = [k \in IKeys |-> NoEntry]
  /\ pending = NoPending
  /\ stop_event = FALSE
  /\ thread = "none"
  /\ lease_check_thread = "none"
  /\ metrics_thread = "none"
  /\ main = "constructed"
  /\ api_cache = [k \in ApiKeys |-> NoCached]
  /\ _cache = [k \in ProxyKeys |-> NoValue]
  /\ _cache_ts = [k \in ProxyKeys |-> 0]
  /\ duplicate_mac_policy = policy
  /\ responses = answers
  /\ clients = <<>>
  /\ db_call = NoCall
  /\ sweeps = [s \in Sweepers |-> NoSweep]
  /\ lease_history = <<>>
  /\ metrics = [k \in MsgTypes |-> 0]
  /\ increment = NoIncrement
  /\ flusher = "sleep"
  /\ sink = [k \in MsgTypes |-> 0]
  /\ counted = [k \in MsgTypes |-> 0]

\* The proxy's default policy, nothing merged yet.
Init == Loaded("keep_all", <<>>)

Tick ==
  /\ now < MaxTime
  /\ now' = now + 1
  /\ UNCHANGED <<leases, discover_cache, request_cache, inform_cache, pending>>
  /\ UNCHANGED outside

\* periodic_lease_check
Sweep ==
  /\ leases' = mark_expired_leases(Store(leases), now).l
  /\ UNCHANGED <<now, discover_cache, request_cache, inform_cache, pending>>
  /\ UNCHANGED outside

\* run(): recvfrom timed out
Purge ==
  /\ EngineIdle
  /\ discover_cache' = PurgeExpired(discover_cache, now)
  /\ request_cache' = PurgeExpired(request_cache, now)
  /\ inform_cache' = PurgeExpired(inform_cache, now)
  /\ UNCHANGED <<leases, now, pending>>
  /\ UNCHANGED outside

Discover(mac, xid) ==
  /\ EngineIdle
  /\ \E r \in {OnDiscover(leases, discover_cache, mac, xid, now)} :
         /\ discover_cache' = Put(discover_cache, <<xid, mac>>, r.entry)
         /\ CacheRoom(discover_cache', request_cache, inform_cache)
         /\ leases' = r.d.l
  /\ UNCHANGED <<now, request_cache, inform_cache, pending>>
  /\ UNCHANGED outside

Request(mac, xid, req) ==
  /\ EngineIdle
  /\ \E r \in {OnRequest(leases, request_cache, mac, xid, req, now)} :
         /\ request_cache' = Put(request_cache, <<xid, mac, req>>, r.entry)
         /\ CacheRoom(discover_cache, request_cache', inform_cache)
         /\ leases' = r.d.l
  /\ UNCHANGED <<now, discover_cache, inform_cache, pending>>
  /\ UNCHANGED outside

Decline(mac, req) ==
  /\ EngineIdle
  /\ leases' = OnDecline(leases, mac, req, now).d.l
  /\ UNCHANGED <<now, discover_cache, request_cache, inform_cache, pending>>
  /\ UNCHANGED outside

Release(mac, ciaddr) ==
  /\ EngineIdle
  /\ leases' = OnRelease(leases, mac, ciaddr).d.l
  /\ UNCHANGED <<now, discover_cache, request_cache, inform_cache, pending>>
  /\ UNCHANGED outside

Inform(mac, xid, ciaddr) ==
  /\ EngineIdle
  /\ \E r \in {OnInform(leases, inform_cache, mac, xid, ciaddr, now)} :
         /\ inform_cache' = Put(inform_cache, <<xid, mac, ciaddr>>, r.entry)
         /\ CacheRoom(discover_cache, request_cache, inform_cache')
         /\ leases' = r.d.l
  /\ UNCHANGED <<now, discover_cache, request_cache, pending>>
  /\ UNCHANGED outside

Web(D) ==
  /\ leases' = D.l
  /\ UNCHANGED <<now, discover_cache, request_cache, inform_cache, pending>>
  /\ UNCHANGED outside

WebBlockDevice(mac) == Web(block_device(Store(leases), mac))
WebUnblockDevice(mac) == Web(unblock_device(Store(leases), mac))
WebSetStatic(mac, ip) == Web(route_set_static(Store(leases), mac, ip, now))
WebAddStatic(mac, ip) == Web(route_add_static(Store(leases), mac, ip, now))
WebSetDynamic(mac) == Web(route_set_dynamic(Store(leases), mac, now))
WebResetLease(mac) == Web(route_reset_lease(Store(leases), mac, now))
WebDelete(mac) == Web(route_delete(Store(leases), mac))

\* The routes that keep the row.
AdminKeep ==
  \E mac \in Devices :
    \/ WebBlockDevice(mac)
    \/ WebUnblockDevice(mac)
    \/ WebSetDynamic(mac)
    \/ WebResetLease(mac)
    \/ \E ip \in StaticIps : WebSetStatic(mac, ip)
    \/ \E ip \in StaticIps : WebAddStatic(mac, ip)

Admin ==
  \/ AdminKeep
  \/ \E mac \in Devices : WebDelete(mac)

\* The packets of the clients in S.
Dhcp(S) ==
  \/ \E mac \in S, xid \in XIDS : Discover(mac, xid)
  \/ \E mac \in S, xid \in XIDS, req \in {NULL} \cup IPS : Request(mac, xid, req)
  \/ \E mac \in S, req \in IPS : Decline(mac, req)
  \/ \E mac \in S, ciaddr \in IPS : Release(mac, ciaddr)
  \/ \E mac \in S, xid \in XIDS, ciaddr \in InformAddrs : Inform(mac, xid, ciaddr)

Next ==
  \/ Tick
  \/ Sweep
  \/ Purge
  \/ Dhcp(Devices)
  \/ Admin

Spec == Init /\ [][Next]_vars

\* run(), msg_type == 3, as two steps of the engine thread, so that the web
\* threads and the sweeper run between the handler's reads and update_lease.
RequestBegin(mac, xid, req) ==
  /\ EngineIdle
  /\ \E dec \in {RequestDecide(leases, request_cache, mac, xid, req, now)} :
         /\ dec.kind = "commit"
         /\ CacheRoom(discover_cache, Put(request_cache, <<xid, mac, req>>, Entry("ACK", NULL, now)),
                      inform_cache)
         /\ leases' = dec.d.l
         /\ pending' = [active |-> TRUE, mac |-> mac, xid |-> xid, req |-> req,
                        yiaddr |-> dec.yiaddr, lease_type |-> dec.lease_type, t0 |-> now]
  /\ UNCHANGED <<now, discover_cache, request_cache, inform_cache>>
  /\ UNCHANGED outside

RequestEnd ==
  /\ pending.active
  /\ \E r \in {RequestCommit(Store(leases), pending.mac, pending.yiaddr, pending.lease_type,
                             pending.t0, now)} :
         /\ leases' = r.d.l
         /\ request_cache' = Put(request_cache, <<pending.xid, pending.mac, pending.req>>, r.entry)
  /\ pending' = NoPending
  /\ UNCHANGED <<now, discover_cache, inform_cache>>
  /\ UNCHANGED outside

\* The engine thread, the sweeper thread and the web threads, interleaved.
\* A DISCOVER writes to the lease table what Sweep writes, an INFORM nothing.
NextThreads ==
  \/ Tick
  \/ Sweep
  \/ Purge
  \/ \E mac \in Devices, xid \in XIDS, req \in {NULL} \cup IPS : RequestBegin(mac, xid, req)
  \/ RequestEnd
  \/ \E mac \in Devices, req \in IPS : Decline(mac, req)
  \/ \E mac \in Devices, ciaddr \in IPS : Release(mac, ciaddr)
  \/ Admin

SpecThreads == Init /\ [][NextThreads]_vars

\* The engine, the sweeper and the routes that keep the row: no soft-deleted
\* rows.
NextLive ==
  \/ Tick
  \/ Sweep
  \/ Purge
  \/ Dhcp(Devices)
  \/ AdminKeep

SpecLive == Init /\ [][NextLive]_vars

\* The engine alone, with as many clients as the pool needs to run out.
NextPool ==
  \/ Tick
  \/ Sweep
  \/ Purge
  \/ Dhcp(MACS)

SpecPool == Init /\ [][NextPool]_vars

\* =============================================================== claims
Min(S) == CHOOSE x \in S : \A y \in S : x <= y

ReqAddrs == {NULL} \cup IPS

\* M has a live STATIC row that binds an address.
StaticBinding(L, mac) == Live(L, mac) /\ L[mac].lease_type = "STATIC" /\ L[mac].ip # NULL

\* The pool addresses no live row holds once the lapsed leases are expired.
FreeAfterSweep(L, t) == {i \in Pool : i \notin UsedIps(mark_expired_leases(Store(L), t).l)}

\* C1: in every reachable state, under any interleaving of DHCP messages,
\* admin actions and the expiry sweeper, no two live rows hold the same
\* non-null ip.
C1_NoSharedIp ==
  \A a, b \in MACS :
    (a # b /\ Live(leases, a) /\ Live(leases, b) /\ leases[a].ip # NULL)
      => leases[a].ip # leases[b].ip

\* The engine has chosen an address for a REQUEST, and before it commits
\* another thread has given that address to another MAC.
C1_Witness ==
  pending.active /\ pending.yiaddr # NULL /\ TakenByOther(leases, pending.mac, pending.yiaddr)

\* C2: block_device(M) leaves M's row with is_blocked = 1, ip NULL and
\* is_expired = 1; while M is blocked every DISCOVER and every REQUEST from M
\* is answered with a NAK, caches nothing and leaves the lease table as it was.
C2_BlockedIsRefused ==
  \A m \in MACS :
    /\ Live(leases, m) =>
         LET b == block_device(Store(leases), m).l[m]
         IN  b.is_blocked = 1 /\ b.ip = NULL /\ b.is_expired = 1
    /\ is_device_blocked(leases, m) =>
         /\ leases[m].ip = NULL /\ leases[m].is_expired = 1
         /\ \A x \in XIDS :
              LET r == OnDiscover(leases, discover_cache, m, x, now)
              IN  r.sent = NakPacket /\ r.d.l = leases /\ ~r.entry.present
         /\ \A x \in XIDS, req \in ReqAddrs :
              LET r == OnRequest(leases, request_cache, m, x, req, now)
              IN  r.sent = NakPacket /\ r.d.l = leases /\ ~r.entry.present

\* M is blocked while an OFFER to M is still in the retransmission cache.
C2_Witness ==
  \E m \in MACS, x \in XIDS :
    is_device_blocked(leases, m) /\ CacheHit(discover_cache, <<x, m>>, now)

\* C3 (amended): if M has a live STATIC binding to X, every REQUEST from M
\* that misses the retransmission cache and asks for a present Y # X is
\* answered with NAK and leaves the lease table as it was.
C3_StaticMismatchNak ==
  \A m \in MACS, x \in XIDS, y \in IPS :
    (StaticBinding(leases, m) /\ y # leases[m].ip /\ ~CacheHit(request_cache, <<x, m, y>>, now))
      => LET r == OnRequest(leases, request_cache, m, x, y, now)
         IN  r.sent = NakPacket /\ r.d.l = leases

\* M is bound to X and the cache still holds the lapsed entry of an ACK for Y.
C3_Witness ==
  \E m \in MACS, x \in XIDS, y \in IPS :
    /\ StaticBinding(leases, m) /\ y # leases[m].ip
    /\ request_cache[<<x, m, y>>].present
    /\ ~CacheHit(request_cache, <<x, m, y>>, now)

\* C3 as the specification states it: every REQUEST for Y # X, cached or not.
C3_Original ==
  \A m \in MACS, x \in XIDS, y \in IPS :
    (StaticBinding(leases, m) /\ y # leases[m].ip)
      => LET r == OnRequest(leases, request_cache, m, x, y, now)
         IN  r.sent = NakPacket /\ r.d.l = leases

OfferIsLowestFree ==
  \A m \in MACS, x \in XIDS :
    (~Live(leases, m) /\ ~CacheHit(discover_cache, <<x, m>>, now))
      => LET r == OnDiscover(leases, discover_cache, m, x, now)
             free == FreeAfterSweep(leases, now)
         IN  /\ r.sent = IF free = {} THEN NoPacket ELSE Packet("OFFER", Min(free))
             /\ r.d.l = mark_expired_leases(Store(leases), now).l

\* From the empty store, for the pool of two addresses: three distinct MACs
\* DISCOVER in turn, none hitting the cache, and each REQUESTs the address it
\* was offered before the next one's DISCOVER.
OffersInTurn ==
  (\A m \in MACS : ~leases[m].exists) =>
    \A m1, m2, m3 \in MACS, x \in XIDS :
      (/\ m1 # m2 /\ m1 # m3 /\ m2 # m3
       /\ \A m \in {m1, m2, m3} : ~CacheHit(discover_cache, <<x, m>>, now))
        => LET r1 == OnDiscover(leases, discover_cache, m1, x, now)
               a1 == OnRequest(r1.d.l, request_cache, m1, x, r1.sent.yiaddr, now)
               r2 == OnDiscover(a1.d.l, discover_cache, m2, x, now)
               a2 == OnRequest(r2.d.l, request_cache, m2, x, r2.sent.yiaddr, now)
               r3 == OnDiscover(a2.d.l, discover_cache, m3, x, now)
           IN  /\ r1.sent.type = "OFFER" /\ r1.sent.yiaddr \in Pool
               /\ a1.sent = Packet("ACK", r1.sent.yiaddr)
               /\ r2.sent.type = "OFFER" /\ r2.sent.yiaddr \in Pool
               /\ r1.sent.yiaddr # r2.sent.yiaddr
               /\ a2.sent = Packet("ACK", r2.sent.yiaddr)
               /\ r3.sent = NoPacket

\* C5 (amended): starting from an empty lease store, when every MAC REQUESTs
\* the address it was offered before the next MAC's DISCOVER (each DISCOVER
\* missing the cache, the leases still running), the MACs up to the pool size
\* are offered pairwise distinct pool addresses and the next distinct MAC gets
\* no OFFER. A DISCOVER alone reserves nothing: a MAC with no live row is
\* offered the lowest pool address that no live row holds.
C5_FreshDiscover == OfferIsLowestFree /\ OffersInTurn

\* Every pool address is held and a MAC without a row is there to ask.
C5_Witness ==
  \E m \in MACS, x \in XIDS :
    /\ ~Live(leases, m) /\ ~CacheHit(discover_cache, <<x, m>>, now)
    /\ FreeAfterSweep(leases, now) = {}

\* C5 as the specification states it, for the pool of two addresses: from the
\* empty store, DISCOVERs from three distinct MACs in a row give the first two
\* distinct pool addresses and the third no OFFER.
C5_Original ==
  (\A m \in MACS : ~leases[m].exists) =>
    \A m1, m2, m3 \in MACS, x \in XIDS :
      (m1 # m2 /\ m1 # m3 /\ m2 # m3) =>
        LET r1 == OnDiscover(leases, discover_cache, m1, x, now)
            c1 == Put(discover_cache, <<x, m1>>, r1.entry)
            r2 == OnDiscover(r1.d.l, c1, m2, x, now)
            c2 == Put(c1, <<x, m2>>, r2.entry)
            r3 == OnDiscover(r2.d.l, c2, m3, x, now)
        IN  /\ r1.sent.type = "OFFER" /\ r1.sent.yiaddr \in Pool
            /\ r2.sent.type = "OFFER" /\ r2.sent.yiaddr \in Pool
            /\ r1.sent.yiaddr # r2.sent.yiaddr
            /\ r3.sent.type # "OFFER"

\* The changes of another MAC's lease state between two arrivals of a message
\* about the addresses in ips: that MAC is allocated, releases or is bound to
\* one of them, lapsed leases expire, that MAC is blocked.
Changes(ips) ==
  ({"request", "release", "add_static"} \X (ips \ {NULL})) \cup ({"sweep", "block_device"} \X {NULL})

OtherChange(L, o, ch, t) ==
  CASE ch[1] = "request" -> OnRequest(L, request_cache, o, Min(XIDS), ch[2], t).d.l
    [] ch[1] = "release" -> OnRelease(L, o, ch[2]).d.l
    [] ch[1] = "sweep" -> mark_expired_leases(Store(L), t).l
    [] ch[1] = "add_static" -> route_add_static(Store(L), o, ch[2], t).l
    [] OTHER -> block_device(Store(L), o).l

\* A message has arrived and got reply r1; another MAC's lease state changes,
\* and the message arrives again before the clock has moved. Same(...) says
\* that the second reply is the first, for the first replies in kinds.
SameDiscover(m, x, kinds) ==
  LET r1 == OnDiscover(leases, discover_cache, m, x, now)
  IN  r1.sent.type \in kinds =>
        \A o \in Devices \ {m}, ch \in Changes({r1.sent.yiaddr, pool_start_int}) :
          LET L2 == OtherChange(r1.d.l, o, ch, now)
              r2 == OnDiscover(L2, Put(discover_cache, <<x, m>>, r1.entry), m, x, now)
          IN  ("NAK" \in kinds \/ ~is_device_blocked(L2, m)) => r2.sent = r1.sent

SameRequest(m, x, req, kinds) ==
  LET r1 == OnRequest(leases, request_cache, m, x, req, now)
  IN  r1.sent.type \in kinds =>
        \A o \in Devices \ {m}, ch \in Changes({r1.sent.yiaddr, req}) :
          LET L2 == OtherChange(r1.d.l, o, ch, now)
              r2 == OnRequest(L2, Put(request_cache, <<x, m, req>>, r1.entry), m, x, req, now)
          IN  ("NAK" \in kinds \/ ~is_device_blocked(L2, m)) => r2.sent = r1.sent

SameInform(m, x, ci, kinds) ==
  LET r1 == OnInform(leases, inform_cache, m, x, ci, now)
  IN  r1.sent.type \in kinds =>
        \A o \in Devices \ {m}, ch \in Changes({ci}) :
          LET L2 == OtherChange(r1.d.l, o, ch, now)
              r2 == OnInform(L2, Put(inform_cache, <<x, m, ci>>, r1.entry), m, x, ci, now)
          IN  ("NAK" \in kinds \/ ~is_device_blocked(L2, m)) => r2.sent = r1.sent

SameTwice(kinds) ==
  \A m \in Devices, x \in XIDS :
    /\ SameDiscover(m, x, kinds)
    /\ \A req \in ReqAddrs : SameRequest(m, x, req, kinds)
    /\ \A ci \in InformAddrs : SameInform(m, x, ci, kinds)

HitReply(r, cache, key, nak) ==
  /\ r.sent = IF nak THEN NakPacket
              ELSE [type |-> cache[key].type, yiaddr |-> cache[key].yiaddr]
  /\ r.d.l = leases
  /\ ~r.entry.present

AllHits(nakWhenBlocked) ==
  /\ \A k \in DKeys : CacheHit(discover_cache, k, now) =>
       HitReply(OnDiscover(leases, discover_cache, k[2], k[1], now), discover_cache, k,
                nakWhenBlocked /\ is_device_blocked(leases, k[2]))
  /\ \A k \in RKeys : CacheHit(request_cache, k, now) =>
       HitReply(OnRequest(leases, request_cache, k[2], k[1], k[3], now), request_cache, k,
                nakWhenBlocked /\ is_device_blocked(leases, k[2]))
  /\ \A k \in IKeys : CacheHit(inform_cache, k, now) =>
       HitReply(OnInform(leases, inform_cache, k[2], k[1], k[3], now), inform_cache, k,
                nakWhenBlocked /\ is_device_blocked(leases, k[2]))

\* C7 (amended): once a reply is cached, every repetition of the message
\* within cache_ttl is answered with exactly the cached reply, whatever
\* happened to the lease table in between, the sender's own lease included,
\* and writes nothing; unless the sender is blocked when the repetition
\* arrives, which is answered with NAK.
C7_HitEchoesUnlessBlocked == AllHits(TRUE)

\* An ACK to M is in the cache and M's own row no longer holds that address.
C7_Witness ==
  \E k \in RKeys :
    /\ CacheHit(request_cache, k, now)
    /\ Live(leases, k[2]) /\ ~is_device_blocked(leases, k[2])
    /\ leases[k[2]].ip # request_cache[k].yiaddr

\* C7 as the specification states it: the cached reply, an admin block
\* of the sender notwithstanding.
C7_Original == AllHits(FALSE)

\* C8 (amended): a RELEASE of a live DYNAMIC lease (mac, ip) leaves that row
\* with ip NULL and is_expired = 1 and no other row changed; the next DISCOVER
\* that misses the cache, from a MAC with no live row, is offered the released
\* ip when it is a pool address and every lower pool address is held.
ReleaseThenDiscover(requireLowest) ==
  \A m \in MACS :
    (Live(leases, m) /\ leases[m].lease_type = "DYNAMIC" /\ leases[m].ip # NULL) =>
      LET ip == leases[m].ip
          L1 == OnRelease(leases, m, ip).d.l
      IN  /\ L1[m].ip = NULL /\ L1[m].is_expired = 1
          /\ \A o \in MACS \ {m} : L1[o] = leases[o]
          /\ \A m2 \in MACS, x \in XIDS :
               (/\ ~Live(L1, m2)
                /\ ~CacheHit(discover_cache, <<x, m2>>, now)
                /\ requireLowest => (ip \in Pool /\ Min(FreeAfterSweep(L1, now)) = ip))
                 => OnDiscover(L1, discover_cache, m2, x, now).sent = Packet("OFFER", ip)

C8_ReleasedLowestIsOffered == ReleaseThenDiscover(TRUE)

\* M holds the higher pool address on a DYNAMIC lease, the lower one is held
\* too, and a MAC without a row is there to ask.
C8_Witness ==
  \E m \in MACS, o \in MACS, m2 \in MACS :
    /\ Live(leases, m) /\ leases[m].lease_type = "DYNAMIC" /\ leases[m].ip = pool_end_int
    /\ Live(leases, o) /\ leases[o].ip = pool_start_int
    /\ ~Live(leases, m2)

\* C8 as the specification states it: the released ip is offered next.
C8_Original == ReleaseThenDiscover(FALSE)

\* C9 as the specification states it: M holds a live DYNAMIC lease on D and a
\* pool address other than D is free; after decline_lease(M, D) neither the ip
\* it assigns nor the ip a following find_free_ip(M) returns is D.
C9_DeclinedIsAvoided ==
  \A m \in MACS :
    (/\ Live(leases, m) /\ leases[m].lease_type = "DYNAMIC" /\ leases[m].ip # NULL
     /\ \E p \in Pool : p # leases[m].ip /\ p \notin UsedIps(leases))
      => LET r == db_decline_lease(Store(leases), m, leases[m].ip, now)
         IN  r.ip # leases[m].ip /\ find_free_ip(r.d, m, now).ip # leases[m].ip

\* M holds the lowest pool address on a DYNAMIC lease and the next one is free.
C9_Witness ==
  \E m \in MACS :
    /\ Live(leases, m) /\ leases[m].lease_type = "DYNAMIC" /\ leases[m].ip = pool_start_int
    /\ pool_end_int \notin UsedIps(leases)

\* The rows of L whose lease has lapsed and is not yet marked so.
Lapsed(L, t) ==
  {m \in MACS : /\ L[m].exists /\ ~L[m].deleted /\ L[m].lease_type = "DYNAMIC"
                /\ L[m].expire_at # NoTime /\ L[m].expire_at <= t /\ L[m].is_expired = 0}

\* C10: mark_expired_leases sets is_expired = 1 and ip NULL for exactly the
\* live DYNAMIC rows with expire_at <= now and is_expired = 0, with one
\* LEASE_EXPIRED event for each; a second call with nothing in between leaves
\* the lease table as it is and appends no event.
C10_SweepIdempotent ==
  LET D1 == mark_expired_leases(Store(leases), now)
      D2 == mark_expired_leases(Store(D1.l), now)
  IN  /\ \A m \in MACS :
           D1.l[m] = IF m \in Lapsed(leases, now)
                       THEN [leases[m] EXCEPT !.is_expired = 1, !.ip = NULL]
                     ELSE leases[m]
      /\ Len(D1.h) = Cardinality(Lapsed(leases, now))
      /\ \A m \in Lapsed(leases, now) :
           \E i \in 1..Len(D1.h) : D1.h[i].mac = m /\ D1.h[i].action = "LEASE_EXPIRED"
      /\ D2.l = D1.l
      /\ D2.h = <<>>

\* One lease has lapsed and is not yet swept, another is still running.
C10_Witness ==
  \E m \in MACS, o \in MACS :
    /\ m \in Lapsed(leases, now)
    /\ Live(leases, o) /\ leases[o].lease_type = "DYNAMIC" /\ leases[o].ip # NULL
    /\ leases[o].expire_at > now

\* C11: in every reachable state, every live row has ip NULL exactly when it
\* is expired or blocked.
C11_NullIpIffExpiredOrBlocked ==
  \A m \in MACS :
    Live(leases, m) =>
      ((leases[m].ip = NULL) <=> (leases[m].is_expired = 1 \/ leases[m].is_blocked = 1))

\* A row that was STATIC, blocked, unblocked and then set DYNAMIC: live, not
\* blocked, not expired, and without an ip; a DISCOVER from it raises.
C11_Witness ==
  \E m \in MACS :
    /\ Live(leases, m) /\ leases[m].lease_type = "DYNAMIC"
    /\ leases[m].is_blocked = 0 /\ leases[m].is_expired = 0 /\ leases[m].ip = NULL
    /\ leases[m].expire_at > now
    /\ ~OnDiscover(leases, discover_cache, m, 1, now).d.ok

\* ------------------------------------------------------- subnet migration
\* DBManager.migrate_subnet, run by the constructor when the configured subnet
\* no longer holds the addresses on file. The addresses 2..MaxIp are those of
\* the configured network, by host part; the address with host part ip in the
\* network the rows were written in is OldNet(ip).
OldNet(ip) == ip + MaxIp

\* host_part = old_ip_int & ~mask_int; new_ip_int = new_network_int | host_part
\* (an address of the configured network is its own host part on it)
HostPart(old_ip) == IF old_ip > MaxIp THEN old_ip - MaxIp ELSE old_ip

\* The table on file when the server starts on another network.
OnOldNet(D) ==
  [D EXCEPT !.l = [m \in MACS |->
                     IF D.l[m].exists /\ D.l[m].ip # NULL
                       THEN [D.l[m] EXCEPT !.ip = OldNet(D.l[m].ip)]
                     ELSE D.l[m]]]

\* The fallback: a free pool address and lease_type = 'DYNAMIC'; expire_at and
\* is_expired are not in the UPDATE.
migrate_fallback(D, mac, old_ip, new_ip) ==
  IF new_ip = NULL THEN D
  ELSE [_insert_history(D, mac, "DYNAMIC_ASSIGNED", old_ip, new_ip, "DHCP")
          EXCEPT !.l[mac].ip = new_ip, !.l[mac].lease_type = "DYNAMIC"]

\* One row of the loop: the host part is kept when it lies in the pool and no
\* live row holds the resulting address.
migrate_row(D, mac, old_ip) ==
  IF HostPart(old_ip) \in Pool /\ HostPart(old_ip) \notin UsedIps(D.l)
    THEN [_insert_history(D, mac, "STATIC_ASSIGNED", old_ip, HostPart(old_ip), "DHCP")
            EXCEPT !.l[mac].ip = HostPart(old_ip)]
  ELSE migrate_fallback(D, mac, old_ip, _get_new_dynamic_ip(D.l))

RECURSIVE migrate_rows(_, _, _)
migrate_rows(D, rows, i) ==
  IF i > Len(rows) THEN D
  ELSE migrate_rows(migrate_row(D, rows[i], D.l[rows[i]].ip), rows, i + 1)

\* SELECT mac, ip ... FROM leases WHERE ip IS NOT NULL
WithIp(L) == {m \in MACS : L[m].exists /\ L[m].ip # NULL}

\* The orders in which the SELECT can return the rows of S.
Orders(S) ==
  {o \in UNION {[1..n -> S] : n \in {Cardinality(S)}} :
     \A i, j \in DOMAIN o : i # j => o[i] # o[j]}

migrate_subnet(D, rows) == migrate_rows(OnOldNet(D), rows, 1)

\* The tables a restart on a new subnet can leave, from table L.
Migrated(L) == {migrate_subnet(Store(L), o).l : o \in Orders(WithIp(L))}

\* The table as it is, and as a subnet migration would leave it.
Tables == {leases} \cup Migrated(leases)

\* Every live STATIC row of L that is not blocked has no expire_at, and is
\* expired exactly when it has no ip (onlyWithIp) or never (otherwise).
StaticRows(L, onlyWithIp) ==
  \A m \in MACS :
    (Live(L, m) /\ L[m].lease_type = "STATIC" /\ L[m].is_blocked = 0) =>
      /\ L[m].expire_at = NoTime
      /\ IF onlyWithIp THEN (L[m].is_expired = 0 <=> L[m].ip # NULL)
         ELSE L[m].is_expired = 0

\* C12: every live STATIC row that is not blocked has expire_at NULL, and has
\* is_expired = 0 exactly when it holds an ip (a STATIC row that was blocked
\* and unblocked has no ip and is_expired = 1); in every reachable table and
\* in the table a subnet migration makes of it.
C12_StaticHasNoExpiry == \A L \in Tables : StaticRows(L, TRUE)

\* A STATIC row with its address, another that was blocked and unblocked, and
\* a migration that keeps a STATIC row STATIC.
C12_Witness ==
  /\ \E m \in MACS : Live(leases, m) /\ leases[m].lease_type = "STATIC"
                     /\ leases[m].is_blocked = 0 /\ leases[m].ip # NULL
  /\ \E m \in MACS : Live(leases, m) /\ leases[m].lease_type = "STATIC"
                     /\ leases[m].is_blocked = 0 /\ leases[m].ip = NULL
  /\ \E L \in Migrated(leases), m \in MACS : Live(L, m) /\ L[m].lease_type = "STATIC" /\ L[m].ip # NULL

\* C12 as stated: is_expired = 0 for every such row.
C12_Original == \A L \in Tables : StaticRows(L, FALSE)

\* Every live DYNAMIC row of L with an ip has an expire_at that some operation
\* set to its time + lease_time, and the sweeper takes the row at that time.
DynamicRowsExpire(L) ==
  \A m \in MACS :
    (Live(L, m) /\ L[m].lease_type = "DYNAMIC" /\ L[m].ip # NULL) =>
      /\ L[m].expire_at # NoTime
      /\ L[m].expire_at <= now + lease_time
      /\ m \in Expirable(L, L[m].expire_at)

\* C13: every live DYNAMIC row with an ip has a non-null expire_at, set to the
\* time of the operation that last assigned or renewed it plus lease_time, so
\* that the sweeper expires it if it is not renewed; in every reachable table
\* and in the table a subnet migration makes of it.
C13_DynamicLeaseExpires == \A L \in Tables : DynamicRowsExpire(L)

\* The same for the tables no migration has touched.
C13_WithoutMigration == DynamicRowsExpire(leases)

\* A STATIC row whose address is outside the pool, which a migration turns
\* into a DYNAMIC row with a pool address and no expire_at.
C13_Witness ==
  \E m \in MACS, L \in Migrated(leases) :
    /\ Live(leases, m) /\ leases[m].lease_type = "STATIC" /\ leases[m].ip \notin Pool
    /\ leases[m].ip # NULL
    /\ L[m].lease_type = "DYNAMIC" /\ L[m].ip \in Pool /\ L[m].expire_at = NoTime
    /\ \A t \in 0..(MaxTime + lease_time) : m \notin Expirable(L, t)

\* The reply to each message a blocked MAC m can send that is not a RELEASE.
BlockedReplies(m) ==
  {OnDiscover(leases, discover_cache, m, x, now) : x \in XIDS}
    \cup {OnRequest(leases, request_cache, m, x, q, now) : x \in XIDS, q \in ReqAddrs}
    \cup {OnDecline(leases, m, q, now) : q \in IPS}
    \cup {OnInform(leases, inform_cache, m, x, c, now) : x \in XIDS, c \in InformAddrs}

\* C14: a RELEASE from a blocked MAC gets no response packet and changes no
\* lease row; a DISCOVER, REQUEST, DECLINE or INFORM from a blocked MAC gets
\* one NAK.
C14_BlockedReleaseIsSilent ==
  \A m \in MACS :
    is_device_blocked(leases, m) =>
      /\ \A c \in ReqAddrs :
           /\ OnRelease(leases, m, c).sent = NoPacket
           /\ OnRelease(leases, m, c).d.l = leases
      /\ \A r \in BlockedReplies(m) : r.sent = NakPacket

\* A blocked MAC: its RELEASE is answered with a NAK, like its other messages,
\* and the table stays as it is.
C14_Witness ==
  \E m \in MACS :
    /\ is_device_blocked(leases, m)
    /\ \A c \in ReqAddrs :
         /\ OnRelease(leases, m, c).sent = NakPacket
         /\ OnRelease(leases, m, c).d.l = leases
    /\ \A r \in BlockedReplies(m) : r.sent = NakPacket /\ r.d.l = leases

\* The lowest pool address no live row of L holds, or NULL.
LowestFree(L) ==
  IF Pool \subseteq UsedIps(L) THEN NULL ELSE Min(Pool \ UsedIps(L))

\* What find_free_ip(m) is to return on table L at time t. S is L once the
\* lapsed leases are expired, which the call does first. asStated: without
\* the refusal of a blocked MAC, and with every DYNAMIC row that is not
\* expired taken to be running and to have an ip.
FreeIpRule(L, S, m, t, asStated) ==
  LET f == find_free_ip(Store(L), m, t)
      running == /\ Live(S, m) /\ S[m].lease_type = "DYNAMIC" /\ S[m].is_expired = 0
                 /\ (asStated \/ (S[m].expire_at # NoTime /\ S[m].expire_at > t))
  IN  IF ~asStated /\ is_device_blocked(L, m) THEN f.d.ok /\ f.ip = NULL
      ELSE IF Live(S, m) /\ S[m].lease_type = "STATIC" /\ S[m].ip # NULL
        THEN f.d.ok /\ f.ip = S[m].ip
      ELSE IF ~asStated /\ running /\ S[m].ip = NULL THEN ~f.d.ok
      ELSE IF running /\ S[m].ip \in Pool THEN f.d.ok /\ f.ip = S[m].ip
      ELSE f.d.ok /\ f.ip = LowestFree(S)

\* find_free_ip(m) never returns an address that a live row of another MAC
\* holds when it returns.
NotOfAnother(L, m, t) ==
  LET f == find_free_ip(Store(L), m, t)
  IN  f.ip # NULL => \A o \in MACS \ {m} : ~(Live(f.d.l, o) /\ f.d.l[o].ip = f.ip)

FreeIpRules(T, asStated) ==
  \A L \in T, m \in MACS :
    /\ FreeIpRule(L, mark_expired_leases(Store(L), now).l, m, now, asStated)
    /\ NotOfAnother(L, m, now)

C15_WitnessLapsed ==
  \E m \in MACS, o \in MACS :
    /\ o # m
    /\ ~Live(leases, m) /\ o \in Lapsed(leases, now) /\ LowestFree(leases) = NULL
    /\ find_free_ip(Store(leases), m, now).ip = leases[o].ip

Managed == NumMacs

NextCrowd ==
  \/ Tick
  \/ Sweep
  \/ Purge
  \/ Dhcp(MACS)
  \/ \E ip \in StaticIps : WebAddStatic(Managed, ip)
  \/ WebBlockDevice(Managed)
  \/ WebUnblockDevice(Managed)
  \/ WebSetDynamic(Managed)

SpecCrowd == Init /\ [][NextCrowd]_vars

\* Handling the packet made no row and gave no row an ip.
NoNewAddress(r) ==
  \A o \in MACS :
    /\ r.d.l[o].exists = leases[o].exists
    /\ r.d.l[o].ip # leases[o].ip => r.d.l[o].ip = NULL

\* m's live row has no ip and is still read as a binding or a running lease:
\* STATIC, or DYNAMIC, not expired and with an expire_at later than t.
Addressless(L, m, t) ==
  /\ Live(L, m) /\ L[m].ip = NULL
  /\ \/ L[m].lease_type = "STATIC"
     \/ L[m].is_expired = 0 /\ L[m].expire_at # NoTime /\ L[m].expire_at > t

\* Every pool address is held and m holds none. asStated: held by a live
\* row, lapsed or not, whether or not m is blocked or the packet is a
\* retransmission; otherwise held once the lapsed leases are expired, m not
\* blocked, and DISCOVER (xid) and REQUEST (xid, no requested_ip) not cached.
Exhausted(m, xid, asStated) ==
  IF asStated
    THEN Pool \subseteq UsedIps(leases) /\ ~(Live(leases, m) /\ leases[m].ip # NULL)
  ELSE /\ FreeAfterSweep(leases, now) = {}
       /\ ~(Live(leases, m) /\ leases[m].ip # NULL /\ m \notin Lapsed(leases, now))
       /\ ~is_device_blocked(leases, m)
       /\ ~CacheHit(discover_cache, <<xid, m>>, now)
       /\ ~CacheHit(request_cache, <<xid, m, NULL>>, now)

PoolExhausted(asStated) ==
  \A m \in MACS, xid \in XIDS :
    Exhausted(m, xid, asStated) =>
      LET d == OnDiscover(leases, discover_cache, m, xid, now)
          r == OnRequest(leases, request_cache, m, xid, NULL, now)
      IN  /\ d.sent = NoPacket /\ NoNewAddress(d)
          /\ NoNewAddress(r)
          /\ IF ~asStated /\ Addressless(leases, m, now) THEN r.sent = NoPacket
             ELSE r.sent = NakPacket

C16_WitnessAddressless ==
  /\ \A x \in XIDS : Exhausted(Managed, x, FALSE)
  /\ Addressless(leases, Managed, now)

KeepsLease(L, M) ==
  /\ L[M].ip = leases[M].ip
  /\ L[M].lease_type = leases[M].lease_type
  /\ L[M].expire_at = leases[M].expire_at
  /\ L[M].is_expired = leases[M].is_expired

\* The tables one DHCP message, from any MAC, or one sweeper run leaves.
AfterOneMessage ==
  {OnDiscover(leases, discover_cache, o, x, now).d.l : o \in MACS, x \in XIDS}
    \cup {OnRequest(leases, request_cache, o, x, q, now).d.l : o \in MACS, x \in XIDS, q \in ReqAddrs}
    \cup {OnDecline(leases, o, q, now).d.l : o \in MACS, q \in IPS}
    \cup {OnRelease(leases, o, c).d.l : o \in MACS, c \in ReqAddrs}
    \cup {OnInform(leases, inform_cache, o, x, c, now).d.l : o \in MACS, x \in XIDS, c \in InformAddrs}
    \cup {mark_expired_leases(Store(leases), now).l}

\* C17: for a live STATIC lease (M, X) that is not blocked, no DHCP message
\* from any MAC and no sweeper run changes its ip, lease_type, expire_at or
\* is_expired; a DISCOVER from M that misses the cache is offered X and a
\* REQUEST from M for X is acknowledged with yiaddr X, also when X is outside
\* the pool.
C17_StaticIsKept ==
  \A M \in MACS :
    (StaticBinding(leases, M) /\ ~is_device_blocked(leases, M)) =>
      /\ \A L \in AfterOneMessage : KeepsLease(L, M)
      /\ \A x \in XIDS :
           ~CacheHit(discover_cache, <<x, M>>, now) =>
             OnDiscover(leases, discover_cache, M, x, now).sent = Packet("OFFER", leases[M].ip)
      /\ \A x \in XIDS :
           OnRequest(leases, request_cache, M, x, leases[M].ip, now).sent
             = Packet("ACK", leases[M].ip)

\* A STATIC lease outside the pool next to a dynamic lease in the pool; the
\* STATIC client is offered its address and its REQUEST for it acknowledged.
C17_Witness ==
  \E M \in MACS, o \in MACS :
    /\ StaticBinding(leases, M) /\ ~is_device_blocked(leases, M) /\ leases[M].ip \notin Pool
    /\ Live(leases, o) /\ leases[o].lease_type = "DYNAMIC" /\ leases[o].ip \in Pool
    /\ OnDiscover(leases, discover_cache, M, 1, now).sent = Packet("OFFER", leases[M].ip)
    /\ OnRequest(leases, request_cache, M, 1, leases[M].ip, now).sent = Packet("ACK", leases[M].ip)

\* The /delete route up to its call of DBManager.delete: the row it SELECTs
\* has no ip and is expired.
delete_allowed(L, mac) == Live(L, mac) /\ L[mac].ip = NULL /\ L[mac].is_expired = 1

\* The /delete route for mac when the engine handles a packet between the
\* route's SELECT, on table L, and DBManager.delete, on the table R the
\* handler has left. DBManager.delete tests deleted_at only.
delete_after(L, R, mac) == IF delete_allowed(L, mac) THEN delete(Store(R), mac).l ELSE R

\* The tables a /delete for m leaves when a REQUEST from m is handled before
\* it, after it, or between its two steps.
DeleteWithRequest(m) ==
  UNION {{delete_after(leases, OnRequest(leases, request_cache, m, x, q, now).d.l, m),
          delete_after(OnRequest(leases, request_cache, m, x, q, now).d.l,
                       OnRequest(leases, request_cache, m, x, q, now).d.l, m),
          OnRequest(route_delete(Store(leases), m).l, request_cache, m, x, q, now).d.l}
         : x \in XIDS, q \in ReqAddrs}

\* C18: a row is soft-deleted only when it has no ip and is expired at the
\* moment deleted_at is set, so that every row with deleted_at set has ip
\* NULL, however a /delete and the handling of a REQUEST from the same MAC
\* interleave; a /delete for a row that has an ip or is not expired changes
\* nothing.
C18_DeletedHasNoIp ==
  /\ \A m \in MACS : (leases[m].exists /\ leases[m].deleted) => leases[m].ip = NULL
  /\ \A m \in MACS :
       \A T \in DeleteWithRequest(m) : (T[m].exists /\ T[m].deleted) => T[m].ip = NULL
  /\ \A m \in MACS :
       (Live(leases, m) /\ ~delete_allowed(leases, m)) =>
         route_delete(Store(leases), m) = Store(leases)

\* m's row is expired and without an ip; the route reads it, the engine then
\* gives m the address q on a REQUEST, and DBManager.delete marks the row
\* deleted with q on it. Another client's REQUEST for q, which no live row
\* holds, then fails on the UNIQUE constraint.
C18_Witness ==
  \E m \in MACS, o \in MACS, q \in Pool :
    /\ o # m /\ ~Live(leases, o)
    /\ delete_allowed(leases, m)
    /\ \E T \in {delete_after(leases, OnRequest(leases, request_cache, m, 1, q, now).d.l, m)} :
         /\ T[m].deleted /\ T[m].ip = q
         /\ q \notin UsedIps(T)
         /\ ~OnRequest(T, request_cache, o, 1, q, now).d.ok

\* ------------------------------------------------------------ host names
\* Columns hostname and is_custom_hostname of a row, kept beside the table:
\* the handlers above are those of packets without option 12.
MaxNames == 2

NoName == 0

Hostnames == 1..MaxNames

Name(hostname, is_custom_hostname) ==
  [hostname |-> hostname, is_custom_hostname |-> is_custom_hostname]

\* The values the two columns take: is_custom_hostname is set with a name.
Names == {Name(NoName, 0)} \cup {Name(h, c) : h \in Hostnames, c \in {0, 1}}

\* A store and the two columns of the row of the MAC at hand.
Named(D, nm) == [d |-> D, nm |-> nm]

\* Fault: a DHCP-channel name replaces a name given through the web.
update_hostname_AnyChannel(D, nm, mac, hostname, channel) ==
  IF is_device_blocked(D.l, mac) \/ ~Live(D.l, mac) THEN Named(D, nm)
  ELSE IF hostname = nm.hostname THEN Named(D, nm)
  ELSE Named(_insert_history(D, mac, "HOSTNAME_UPDATED", D.l[mac].ip, NULL, channel),
             Name(hostname, IF channel = "WEB" THEN 1 ELSE nm.is_custom_hostname))

update_hostname(D, nm, mac, hostname, channel) ==
  IF is_device_blocked(D.l, mac) \/ ~Live(D.l, mac) THEN Named(D, nm)
  ELSE IF hostname = nm.hostname THEN Named(D, nm)
  ELSE IF channel = "DHCP" /\ nm.is_custom_hostname = 1 THEN Named(D, nm)
  ELSE Named(_insert_history(D, mac, "HOSTNAME_UPDATED", D.l[mac].ip, NULL, channel),
             Name(hostname, IF channel = "WEB" THEN 1 ELSE nm.is_custom_hostname))

\* DHCPServer.update_lease: if hostname and hostname != old_hostname, once
\* renew_lease or update_ip has returned D1.
then_hostname(D1, nm, mac, hostname) ==
  IF D1.ok /\ hostname # NoName /\ hostname # nm.hostname
    THEN update_hostname(D1, nm, mac, hostname, "DHCP")
  ELSE Named(D1, nm)

\* DHCPServer.update_lease: the lease type, after the name (r).
then_retype(r, mac, lease_type, old_lease_type, t) ==
  Named(update_lease_retype(r.d, mac, lease_type, old_lease_type, t), r.nm)

\* create_lease through the DHCP channel: the new row carries the name.
then_created(D, D1, nm, mac, hostname) ==
  Named(D1, IF D1.ok /\ D1.l[mac].exists /\ ~D.l[mac].exists THEN Name(hostname, 0) ELSE nm)

\* DHCPServer.update_lease for a packet with option 12 (hostname).
update_lease_named(D, nm, mac, ip, hostname, lease_type, t) ==
  IF is_device_blocked(D.l, mac) THEN Named(D, nm)
  ELSE IF D.l[mac].exists
    THEN IF D.l[mac].deleted THEN Named(update_lease(D, mac, ip, lease_type, t), nm)
         ELSE IF ip = D.l[mac].ip /\ lease_type = D.l[mac].lease_type
           THEN then_hostname(renew_lease(D, mac, "DHCP", t), nm, mac, hostname)
         ELSE then_retype(
                then_hostname(
                  IF ip # D.l[mac].ip /\ ip # NULL THEN update_ip(D, mac, ip, "DHCP", t) ELSE D,
                  nm, mac, hostname),
                mac, lease_type, D.l[mac].lease_type, t)
  ELSE then_created(D, create_lease(D, mac, ip, lease_type, "DHCP", t), nm, mac, hostname)

\* run(), msg_type == 3, for a packet with option 12: the store and the name
\* columns once the REQUEST is handled (dec: what the handler decided).
RequestNamed(dec, nm, mac, hostname, t) ==
  IF dec.kind = "commit"
    THEN update_lease_named(dec.d, nm, mac, dec.yiaddr, hostname, dec.lease_type, t)
  ELSE Named(dec.d, nm)

OnRequestNamed(L, nm, cache, mac, xid, req, hostname, t) ==
  RequestNamed(RequestDecide(L, cache, mac, xid, req, t), nm, mac, hostname, t)

\* run(), msg_type == 4, for a packet with option 12 (r: what decline_lease
\* returned).
DeclineNamed(r, nm, mac, hostname, t) ==
  IF ~r.d.ok \/ r.ip = NULL THEN Named(r.d, nm)
  ELSE update_lease_named(r.d, nm, mac, r.ip, hostname, "DYNAMIC", t)

OnDeclineNamed(L, nm, mac, req, hostname, t) ==
  IF is_device_blocked(L, mac) THEN Named(BlockedNak(L, mac, req).d, nm)
  ELSE DeclineNamed(db_decline_lease(Store(L), mac, req, t), nm, mac, hostname, t)

\* The /update_hostname route.
route_update_hostname(D, nm, mac, hostname) ==
  IF Live(D.l, mac) /\ nm.hostname # hostname
    THEN update_hostname(D, nm, mac, hostname, "WEB")
  ELSE Named(D, nm)

\* The REQUESTs of m as far as the handler's decision, and its DECLINEs as
\* far as the return of decline_lease.
RequestsDecided(m) ==
  {RequestDecide(leases, request_cache, m, x, q, now) : x \in XIDS, q \in ReqAddrs}

Declined(m) ==
  IF is_device_blocked(leases, m) THEN {}
  ELSE {db_decline_lease(Store(leases), m, q, now) : q \in IPS}

\* Handling the message left the name columns nm and wrote no event for them.
KeepsName(r, nm) == r.nm = nm /\ \A i \in 1..Len(r.d.h) : r.d.h[i].action # "HOSTNAME_UPDATED"

\* C19: once a row's hostname was given through the web (is_custom_hostname
\* = 1), no DHCP message with another option-12 hostname changes the stored
\* hostname or is_custom_hostname or writes a HOSTNAME_UPDATED event; and
\* update_hostname for a blocked device, from either channel, changes nothing.
C19_CustomNameIsKept ==
  \A m \in MACS :
    /\ leases[m].exists =>
         /\ \A dec \in RequestsDecided(m), h \in Hostnames, hn \in Hostnames \cup {NoName} :
              KeepsName(RequestNamed(dec, Name(h, 1), m, hn, now), Name(h, 1))
         /\ \A r \in Declined(m), h \in Hostnames, hn \in Hostnames \cup {NoName} :
              KeepsName(DeclineNamed(r, Name(h, 1), m, hn, now), Name(h, 1))
    /\ is_device_blocked(leases, m) =>
         \A nm \in Names, hn \in Hostnames, ch \in {"WEB", "DHCP"} :
           update_hostname(Store(leases), nm, m, hn, ch) = Named(Store(leases), nm)

\* m has a live row, not blocked, with the name 1. Given through DHCP, the
\* name is replaced by a REQUEST that carries the name 2, with one event;
\* given through the web, it stays, while the REQUEST renews the lease.
C19_Witness ==
  \E m \in MACS :
    /\ Live(leases, m) /\ ~is_device_blocked(leases, m) /\ leases[m].ip \in Pool
    /\ \E r \in {OnRequestNamed(leases, Name(1, 0), request_cache, m, 1, leases[m].ip, 2, now)} :
         r.nm = Name(2, 0) /\ ~KeepsName(r, Name(2, 0))
    /\ route_update_hostname(Store(leases), Name(NoName, 0), m, 1).nm = Name(1, 1)
    /\ \E r \in {OnRequestNamed(leases, Name(1, 1), request_cache, m, 1, leases[m].ip, 2, now)} :
         r.nm = Name(1, 1) /\ Len(r.d.h) > 0

\* A blocked device, whose name the /update_hostname route does not change.
C19_WitnessBlocked ==
  \E m \in MACS :
    /\ is_device_blocked(leases, m)
    /\ route_update_hostname(Store(leases), Name(1, 0), m, 2) = Named(Store(leases), Name(1, 0))

\* Every history row that D holds carries the channel ch.
AllThrough(D, ch) == \A i \in 1..Len(D.h) : D.h[i].channel = ch

\* The stores the web routes leave, each from the table as it is.
AfterRoute ==
  UNION {{block_device(Store(leases), m),
          unblock_device(Store(leases), m),
          route_set_dynamic(Store(leases), m, now),
          route_reset_lease(Store(leases), m, now),
          route_delete(Store(leases), m)}
           \cup {route_set_static(Store(leases), m, ip, now) : ip \in StaticIps}
           \cup {route_add_static(Store(leases), m, ip, now) : ip \in StaticIps}
           \cup {route_update_hostname(Store(leases), nm, m, hn).d : nm \in Names, hn \in Hostnames}
         : m \in MACS}

\* The stores the DHCP messages and the sweeper leave.
AfterPacket ==
  {OnDiscover(leases, discover_cache, o, x, now).d : o \in MACS, x \in XIDS}
    \cup {OnRequestNamed(leases, nm, request_cache, o, x, q, hn, now).d :
            o \in MACS, x \in XIDS, q \in ReqAddrs, nm \in Names, hn \in Hostnames \cup {NoName}}
    \cup {OnDecline(leases, o, q, now).d : o \in MACS, q \in IPS}
    \cup {OnRelease(leases, o, c).d : o \in MACS, c \in ReqAddrs}
    \cup {OnInform(leases, inform_cache, o, x, c, now).d : o \in MACS, x \in XIDS, c \in InformAddrs}
    \cup {mark_expired_leases(Store(leases), now)}

\* C20: every history event carries the channel of the operation that caused
\* it: the events of the web routes (static bind, set dynamic, hostname edit,
\* block, unblock, delete, reset) are WEB, those of DHCP packets and of the
\* sweeper are DHCP.
C20_EventsCarryChannel ==
  /\ \A D \in AfterRoute : AllThrough(D, "WEB")
  /\ \A D \in AfterPacket : AllThrough(D, "DHCP")

\* A row that the administrator blocks, unblocks or deletes: the event is
\* recorded as DHCP, while the event of set_dynamic on a STATIC row is WEB.
C20_Witness ==
  /\ \E m \in MACS :
       /\ Len(block_device(Store(leases), m).h) = 1
       /\ block_device(Store(leases), m).h[1] =
            Event(m, "DEVICE_BLOCKED", leases[m].ip, NULL, "DHCP")
  /\ \E m \in MACS : \E D \in {unblock_device(Store(leases), m)} :
       Len(D.h) = 1 /\ D.h[1].action = "DEVICE_UNBLOCKED" /\ D.h[1].channel = "DHCP"
  /\ \E m \in MACS : \E D \in {route_set_dynamic(Store(leases), m, now)} :
       Len(D.h) = 1 /\ D.h[1].action = "DYNAMIC_ASSIGNED" /\ D.h[1].channel = "WEB"

\* ================================================= threads of DHCPServer
engine == <<leases, now, discover_cache, request_cache, inform_cache, pending>>

\* threading.Thread.is_alive
is_alive(t) == t \notin {"none", "returned"}

SetThreads(se, th, lc, mt, mn) ==
  /\ stop_event' = se
  /\ thread' = th
  /\ lease_check_thread' = lc
  /\ metrics_thread' = mt
  /\ main' = mn
  /\ UNCHANGED <<beyond, inner>>

\* DHCPServer.start, called once by main()
Start ==
  /\ main = "constructed"
  /\ ~is_alive(thread)
  /\ SetThreads(FALSE, "bind", "running", "running", "serving")
  /\ UNCHANGED engine

\* run(): sock.bind(('0.0.0.0', 67)) succeeds, or raises and run() returns
Bind(bound) ==
  /\ thread = "bind"
  /\ SetThreads(stop_event, IF bound THEN "head" ELSE "returned",
                lease_check_thread, metrics_thread, main)
  /\ UNCHANGED engine

\* A loop's test of stop_event: the next position of its thread.
WhileNotStopped(body) == IF stop_event THEN "returned" ELSE body

\* run(): while not self.stop_event.is_set()
LoopTest ==
  /\ thread = "head"
  /\ SetThreads(stop_event, WhileNotStopped("recvfrom"), lease_check_thread, metrics_thread, main)
  /\ UNCHANGED engine

\* What is wrong with one packet: nothing, fewer than 240 bytes, options that
\* parse_packet cannot read, an exception of the lease store's first call
\* (is_device_blocked), or an exception of sock.sendto.
Faults == {"none", "short", "parse", "store", "send"}

\* run(): the handler's outcome r when the fault cuts it short.  sendto is the
\* last statement of every branch that can raise; the cache entry is written
\* before it.
Faulted(L, r, fault) ==
  CASE fault \in {"short", "parse", "store"} -> Result(Store(L), NoPacket, NoEntry)
    [] fault = "send" -> Result(r.d, NoPacket, r.entry)
    [] OTHER -> r

\* run(): a fault escapes the loop.
loop_after_Uncaught(fault) == IF fault = "none" THEN "head" ELSE "returned"

\* run(): continue, except socket.timeout, except Exception: the next
\* position of the thread after one iteration.
loop_after(fault) == "head"

\* run(): one iteration of the loop that leaves the tables L, dc, rc, ic.
Iteration(L, dc, rc, ic, fault) ==
  /\ thread = "recvfrom"
  /\ CacheRoom(dc, rc, ic)
  /\ leases' = L
  /\ discover_cache' = dc
  /\ request_cache' = rc
  /\ inform_cache' = ic
  /\ SetThreads(stop_event, loop_after(fault), lease_check_thread, metrics_thread, main)
  /\ UNCHANGED <<now, pending>>

RecvDiscover(mac, xid, fault) ==
  \E r \in {Faulted(leases, OnDiscover(leases, discover_cache, mac, xid, now), fault)} :
    Iteration(r.d.l, Put(discover_cache, <<xid, mac>>, r.entry), request_cache, inform_cache,
              fault)

RecvRequest(mac, xid, req, fault) ==
  \E r \in {Faulted(leases, OnRequest(leases, request_cache, mac, xid, req, now), fault)} :
    Iteration(r.d.l, discover_cache, Put(request_cache, <<xid, mac, req>>, r.entry),
              inform_cache, fault)

RecvDecline(mac, req, fault) ==
  \E r \in {Faulted(leases, OnDecline(leases, mac, req, now), fault)} :
    Iteration(r.d.l, discover_cache, request_cache, inform_cache, fault)

RecvRelease(mac, ciaddr, fault) ==
  \E r \in {Faulted(leases, OnRelease(leases, mac, ciaddr), fault)} :
    Iteration(r.d.l, discover_cache, request_cache, inform_cache, fault)

RecvInform(mac, xid, ciaddr, fault) ==
  \E r \in {Faulted(leases, OnInform(leases, inform_cache, mac, xid, ciaddr, now), fault)} :
    Iteration(r.d.l, discover_cache, request_cache,
              Put(inform_cache, <<xid, mac, ciaddr>>, r.entry), fault)

\* run(): except socket.timeout
Timeout ==
  Iteration(leases, PurgeExpired(discover_cache, now), PurgeExpired(request_cache, now),
            PurgeExpired(inform_cache, now), "none")

\* The clients whose packets reach the socket.
NumSenders == 1
Senders == 1..NumSenders

Recv ==
  \E mac \in Senders, fault \in Faults :
    \/ \E xid \in XIDS : RecvDiscover(mac, xid, fault)
    \/ \E xid \in XIDS, req \in {NULL} \cup IPS : RecvRequest(mac, xid, req, fault)
    \/ \E req \in IPS : RecvDecline(mac, req, fault)
    \/ \E ciaddr \in IPS : RecvRelease(mac, ciaddr, fault)
    \/ \E xid \in XIDS, ciaddr \in InformAddrs : RecvInform(mac, xid, ciaddr, fault)

\* periodic_lease_check: one turn of the loop, the test of stop_event, then
\* mark_expired_leases, which returns or raises before it writes, then the
\* sleep
LeaseCheck(raised) ==
  /\ lease_check_thread = "running"
  /\ leases' = IF stop_event \/ raised THEN leases ELSE mark_expired_leases(Store(leases), now).l
  /\ SetThreads(stop_event, thread, WhileNotStopped("running"), metrics_thread, main)
  /\ UNCHANGED <<now, discover_cache, request_cache, inform_cache, pending>>

\* periodic_metrics_flush: one turn of the loop, the test of stop_event, then
\* the flush and the sleep
MetricsFlush ==
  /\ metrics_thread = "running"
  /\ SetThreads(stop_event, thread, lease_check_thread, WhileNotStopped("running"), main)
  /\ UNCHANGED engine

\* DHCPServer.stop up to its first join
Stop ==
  /\ main = "serving"
  /\ SetThreads(stop_event \/ is_alive(thread), thread, lease_check_thread, metrics_thread,
                IF is_alive(thread) THEN "joining" ELSE "stopped")
  /\ UNCHANGED engine

\* DHCPServer.stop: the three joins have returned
Join ==
  /\ main = "joining"
  /\ ~is_alive(thread)
  /\ ~is_alive(lease_check_thread)
  /\ ~is_alive(metrics_thread)
  /\ SetThreads(stop_event, thread, lease_check_thread, metrics_thread, "stopped")
  /\ UNCHANGED engine

\* The steps run() takes with no packet arriving.
RunThread == (\E bound \in BOOLEAN : Bind(bound)) \/ LoopTest \/ Timeout

NextServer ==
  \/ Tick
  \/ Start
  \/ \E bound \in BOOLEAN : Bind(bound)
  \/ LoopTest
  \/ Timeout
  \/ Recv
  \/ \E raised \in BOOLEAN : LeaseCheck(raised)
  \/ MetricsFlush
  \/ Stop
  \/ Join

\* socket.settimeout(1) and the finite sleeps let every thread take its next
\* step; nothing obliges a client to send or main() to call stop().
SpecServer ==
  /\ Init
  /\ [][NextServer]_vars
  /\ WF_vars(RunThread)
  /\ WF_vars(\E raised \in BOOLEAN : LeaseCheck(raised))
  /\ WF_vars(MetricsFlush)
  /\ WF_vars(Join)

\* C21: once stop() has been called on a started server, the socket loop,
\* the expiry sweeper and the metrics flusher all terminate, whatever the
\* three threads were doing.
StopCalled == main \in {"joining", "stopped"}

Terminated == ~is_alive(thread) /\ ~is_alive(lease_check_thread) /\ ~is_alive(metrics_thread)

C21_StopTerminatesThreads == StopCalled ~> Terminated

\* stop() found the socket loop already returned, the two workers running.
C21_Witness ==
  /\ main = "stopped"
  /\ thread = "returned"
  /\ ~stop_event
  /\ is_alive(lease_check_thread)
  /\ is_alive(metrics_thread)

\* The outcomes of every packet a sender can send in this state, cut short
\* by the fault.
FaultedReplies(m, fault) ==
  {Faulted(leases, OnDiscover(leases, discover_cache, m, x, now), fault) : x \in XIDS}
    \cup {Faulted(leases, OnRequest(leases, request_cache, m, x, q, now), fault) :
            x \in XIDS, q \in {NULL} \cup IPS}
    \cup {Faulted(leases, OnDecline(leases, m, q, now), fault) : q \in IPS}
    \cup {Faulted(leases, OnRelease(leases, m, c), fault) : c \in IPS}
    \cup {Faulted(leases, OnInform(leases, inform_cache, m, x, c, now), fault) :
            x \in XIDS, c \in InformAddrs}

InLoop(t) == t \in {"head", "recvfrom"}

\* C22: a fault in the handling of one packet (short packet, unreadable
\* options, lease-store exception, send error) never ends the socket loop,
\* which goes on to its next iteration and ends only on stop_event; and the
\* packet whose handling raised gets no response.
C22_FaultKeepsLoop ==
  /\ [](\A m \in Senders, fault \in Faults \ {"none"} :
          \A r \in FaultedReplies(m, fault) : r.sent = NoPacket)
  /\ [][/\ (InLoop(thread) /\ ~InLoop(thread')) => (thread = "head" /\ stop_event)
        /\ (thread = "recvfrom" /\ thread' # thread) => thread' = "head"]_vars

\* The loop waits for a packet, stop() has not been called, and a packet can
\* arrive whose reply sock.sendto would fail to send after the lease was
\* committed.
C22_Witness ==
  /\ thread = "recvfrom"
  /\ ~stop_event
  /\ \E m \in Senders, x \in XIDS, q \in IPS :
       /\ OnRequest(leases, request_cache, m, x, q, now).sent.type = "ACK"
       /\ Faulted(leases, OnRequest(leases, request_cache, m, x, q, now), "send").d.l # leases
  /\ \E m \in Senders : Live(leases, m) /\ leases[m].ip # NULL

\* ========================================================= per-node API
\* server.config['api_token'], and what a request may carry as ?token=
api_token == "secret"
Tokens == {"secret", "guess", "absent"}

api_cache_ttl == 1

Unauthorized == Response("Unauthorized", NULL, NULL, {}, FALSE)
NotFound == Response("Client not found", NULL, NULL, {}, FALSE)

\* What a route did: the HTTP status and body, the cache and the lease store
\* it leaves, and how many times it called db_manager.
Answer(status, response, cache, D, queries) ==
  [status |-> status, response |-> response, cache |-> cache, d |-> D, queries |-> queries]

Cached(response, t) == [present |-> TRUE, response |-> response, creation_time |-> t]

clean_cache(cache, t) ==
  [k \in DOMAIN cache |->
     IF cache[k].present /\ t - cache[k].creation_time > api_cache_ttl THEN NoCached
     ELSE cache[k]]

\* get_client_info / get_all_clients: the entry is there and within the TTL
ApiHit(cache, key, t) == cache[key].present /\ t - cache[key].creation_time <= api_cache_ttl

\* return jsonify(response): the cached body, marked in place, with Flask's
\* default status
ApiCached(L, cache, key) ==
  Answer(200, [cache[key].response EXCEPT !.is_cached = TRUE],
         [cache EXCEPT ![key].response.is_cached = TRUE], Store(L), 0)

\* DBManager.get_client_by_ip: the MACs of the rows WHERE ip = ? AND
\* deleted_at IS NULL (ip is UNIQUE)
get_client_by_ip(L, ip) == {m \in MACS : Live(L, m) /\ L[m].ip = ip}

ApiStore(L, cache, key, status, response, D, t) ==
  Answer(status, response, [cache EXCEPT ![key] = Cached(response, t)], D, 1)

ApiLookup(L, cache, ip, found, t) ==
  IF found # {}
  THEN ApiStore(L, cache, ip, 200, Response("", CHOOSE m \in found : TRUE, ip, {}, FALSE),
                Store(L), t)
  ELSE ApiStore(L, cache, ip, 404, NotFound, Store(L), t)

ApiClientServe(L, cache, ip, t) ==
  IF ApiHit(cache, ip, t) THEN ApiCached(L, cache, ip)
  ELSE ApiLookup(L, cache, ip, get_client_by_ip(L, ip), t)

\* The lookup before the token test.
get_client_info_CacheFirst(L, cache, token, ip, t) ==
  IF ApiHit(cache, ip, t) THEN ApiCached(L, cache, ip)
  ELSE IF token # api_token THEN Answer(401, Unauthorized, cache, Store(L), 0)
  ELSE ApiClientServe(L, clean_cache(cache, t), ip, t)

\* GET /api/client/<ip>
get_client_info(L, cache, token, ip, t) ==
  IF token # api_token THEN Answer(401, Unauthorized, cache, Store(L), 0)
  ELSE ApiClientServe(L, clean_cache(cache, t), ip, t)

\* DBManager.get_all_leases(): mark_expired_leases, then the rows WHERE
\* deleted_at IS NULL AND is_expired != 1, as (mac, ip)
ListedClients(D) == {<<m, D.l[m].ip>> : m \in {x \in MACS : Live(D.l, x) /\ D.l[x].is_expired # 1}}

ApiList(L, cache, D, t) ==
  ApiStore(L, cache, all_clients, 200, Response("", NULL, NULL, ListedClients(D), FALSE), D, t)

ApiClientsServe(L, cache, t) ==
  IF ApiHit(cache, all_clients, t) THEN ApiCached(L, cache, all_clients)
  ELSE ApiList(L, cache, mark_expired_leases(Store(L), t), t)

\* GET /api/clients
get_all_clients(L, cache, token, t) ==
  IF token # api_token THEN Answer(401, Unauthorized, cache, Store(L), 0)
  ELSE ApiClientsServe(L, clean_cache(cache, t), t)

\* The requests the model lets arrive keep at most MaxCached cached responses.
ApiRoom(cache) ==
  \/ Cardinality(Present(cache)) <= MaxCached
  \/ Cardinality(Present(cache)) <= Cardinality(Present(api_cache))

Api(r) ==
  /\ ApiRoom(r.cache)
  /\ api_cache' = r.cache
  /\ leases' = r.d.l
  /\ UNCHANGED <<now, discover_cache, request_cache, inform_cache, pending, threads>>
  /\ UNCHANGED <<_cache, _cache_ts, duplicate_mac_policy, responses, clients, inner>>

ApiClient(token, ip) == \E r \in {get_client_info(leases, api_cache, token, ip, now)} : Api(r)

ApiClients(token) == \E r \in {get_all_clients(leases, api_cache, token, now)} : Api(r)

\* The engine with the clients of Senders, the sweeper, and the API's callers.
NextApi ==
  \/ Tick
  \/ Sweep
  \/ Dhcp(Senders)
  \/ \E mac \in Senders : WebBlockDevice(mac)
  \/ \E token \in Tokens, ip \in IPS : ApiClient(token, ip)
  \/ \E token \in Tokens : ApiClients(token)

SpecApi == Init /\ [][NextApi]_vars

\* ================================================================ proxy
proxy_cache_ttl == 2

\* load_config: cfg["servers"] by host address, each with the /24 network of
\* its host.  The first two share a network, NumNets has no server.
servers == <<SubnetSize, SubnetSize + 1, 2 * SubnetSize>>
Upstreams == 1..Len(servers)

\* ipaddress.ip_network(f"{host}/24", strict=False)
network(ip) == ip \div SubnetSize

\* get_server_for_ip: the first server whose network holds ip, or None (0)
get_server_for_ip(ip) ==
  IF \E s \in Upstreams : network(servers[s]) = network(ip)
  THEN CHOOSE s \in Upstreams :
         /\ network(servers[s]) = network(ip)
         /\ \A o \in 1..(s - 1) : network(servers[o]) # network(ip)
  ELSE 0

\* get_cached
get_cached(cache, ts, key, t) == IF ~cache[key].none /\ t - ts[key] < proxy_cache_ttl THEN cache[key] ELSE NoValue

\* ---- merge_clients
\* A timestamp of the per-node API, 'DD.MM.YYYY HH:MM:SS', as <<DD, MM>>; the
\* empty string is before every timestamp.
NoStamp == <<0, 0>>
Stamps == {<<1, 2>>, <<2, 1>>}

\* str > str: the leading field decides, then the next one
StrGreater(a, b) == a[1] > b[1] \/ (a[1] = b[1] /\ a[2] > b[2])

\* One upstream client record; ip is NULL when the lease holds none.
Client(mac, ip, expire_at, updated_at) ==
  [mac |-> mac, ip |-> ip, expire_at |-> expire_at, updated_at |-> updated_at]

\* key=lambda x: tuple(map(int, x["ip"].split("."))) if x.get("ip") else (0,0,0,0)
ip_key(c) == c.ip

Reverse(s) == [i \in 1..Len(s) |-> s[Len(s) + 1 - i]]

RECURSIVE Concat(_)
Concat(lists) == IF lists = <<>> THEN <<>> ELSE lists[1] \o Concat(Tail(lists))

PlaceDesc(sorted, c) ==
  SelectSeq(sorted, LAMBDA x : ip_key(x) >= ip_key(c)) \o <<c>>
    \o SelectSeq(sorted, LAMBDA x : ip_key(x) < ip_key(c))

\* list.sort(key=..., reverse=True): stable, equal keys keep their order
RECURSIVE sort_by_ip(_)
sort_by_ip(s) ==
  IF s = <<>> THEN <<>> ELSE PlaceDesc(sort_by_ip(SubSeq(s, 1, Len(s) - 1)), s[Len(s)])

\* policy "merge": the records whose mac was not seen before
RECURSIVE unique_macs(_, _, _)
unique_macs(s, i, seen) ==
  IF i > Len(s) THEN <<>>
  ELSE IF s[i].mac \in seen THEN unique_macs(s, i + 1, seen)
  ELSE <<s[i]>> \o unique_macs(s, i + 1, seen \cup {s[i].mac})

\* The comparison takes the later of expire_at and updated_at.
cur_time_Latest(c) == IF StrGreater(c.updated_at, c.expire_at) THEN c.updated_at ELSE c.expire_at

\* c.get("expire_at") or c.get("updated_at") or ""
cur_time(c) == IF c.expire_at # NoStamp THEN c.expire_at ELSE c.updated_at

Slot(by_mac, mac) == {k \in 1..Len(by_mac) : by_mac[k].mac = mac}

\* policy "prefer_ip": by_mac after one more record (a dict keeps the order
\* in which its keys were first set)
by_mac_put(by_mac, c, slot) ==
  IF slot = {} THEN (IF StrGreater(cur_time(c), NoStamp) THEN Append(by_mac, c) ELSE by_mac)
  ELSE IF StrGreater(cur_time(c), cur_time(by_mac[CHOOSE k \in slot : TRUE]))
    THEN [by_mac EXCEPT ![CHOOSE k \in slot : TRUE] = c]
  ELSE by_mac

RECURSIVE by_mac_values(_, _, _)
by_mac_values(s, i, by_mac) ==
  IF i > Len(s) THEN by_mac
  ELSE by_mac_values(s, i + 1, by_mac_put(by_mac, s[i], Slot(by_mac, s[i].mac)))

Policies == {"keep_all", "merge", "prefer_ip"}

\* Policy "merge" keeping the first record of each MAC in the sorted list.
apply_policy_FirstSeen(sorted, policy) ==
  CASE policy = "merge" -> unique_macs(sorted, 1, {})
    [] policy = "prefer_ip" -> sort_by_ip(by_mac_values(sorted, 1, <<>>))
    [] OTHER -> sorted

apply_policy(sorted, policy) ==
  CASE policy = "merge" -> Reverse(unique_macs(Reverse(sorted), 1, {}))
    [] policy = "prefer_ip" -> sort_by_ip(by_mac_values(sorted, 1, <<>>))
    [] OTHER -> sorted

\* merge_clients on the client lists of the successful responses
merge_clients(lists, policy) == apply_policy(sort_by_ip(Concat(lists)), policy)

\* ---- the proxy's routes
\* What an upstream does with GET /api/client/<ip>: 200 with the client, 200
\* with a body that has no ip (the node's cached "Client not found"), 404, no
\* answer within dhcp_timeout_seconds, another HTTP status, no connection.
ClientOutcomes == {"client", "bodyless", "notfound", "timeout", "http", "refused"}

\* What an upstream does with GET /api/clients: 200 with its list, or one of
\* the failures; "raise" is an exception that query_server does not catch.
Failures == {"timeout", "http", "refused", "raise"}

Outcome(kind, list) == [kind |-> kind, clients |-> list]

\* query_server: result["success"]
success(kind) == kind \notin Failures

\* query_server: result["error"], and what api_clients files for a raise
error_of(kind) ==
  CASE kind = "timeout" -> "timeout"
    [] kind = "http" -> "HTTP 500"
    [] kind = "raise" -> "exception"
    [] OTHER -> "Connection refused"

\* What a route of the proxy did: the HTTP status and body, the cache it
\* leaves, and the upstreams it queried, in order.
ProxyAnswer(status, response, cache, ts, contacted) ==
  [status |-> status, response |-> response, cache |-> cache, ts |-> ts,
   contacted |-> contacted]

ProxyUnauthorized(cache, ts) ==
  ProxyAnswer(401, ProxyResponse("Unauthorized", NULL, <<>>, OrNone({}), FALSE), cache, ts, <<>>)

\* cached["is_cached"] = True; return jsonify(cached)
ProxyCached(cache, ts, key) ==
  ProxyAnswer(200, [cache[key] EXCEPT !.is_cached = TRUE],
              [cache EXCEPT ![key].is_cached = TRUE], ts, <<>>)

\* set_cached(cache_key, resp); return jsonify(resp), status
ProxyStore(cache, ts, key, status, response, contacted, t) ==
  ProxyAnswer(status, response, [cache EXCEPT ![key] = response], [ts EXCEPT ![key] = t],
              contacted)

ClientError(error, ip) == ProxyResponse(error, ip, <<>>, OrNone({}), FALSE)

\* api_client after query_server(server, ...)
ClientRouted(cache, ts, ip, server, kind, t) ==
  IF ~success(kind)
  THEN ProxyAnswer(IF kind = "timeout" THEN 504 ELSE 502,
                   ClientError(IF kind = "timeout" THEN "DHCP server timeout"
                               ELSE "DHCP server unavailable", NULL),
                   cache, ts, <<server>>)
  ELSE IF kind = "client"
    THEN ProxyStore(cache, ts, ip, 200, ClientError("", ip), <<server>>, t)
  ELSE ProxyStore(cache, ts, ip, 404, ClientError("Client not found", ip), <<server>>, t)

ClientMissed(cache, ts, ip, server, kind, t) ==
  IF server = 0
  THEN ProxyStore(cache, ts, ip, 400,
                  ClientError("No DHCP server responsible for this IP subnet", ip), <<>>, t)
  ELSE ClientRouted(cache, ts, ip, server, kind, t)

\* GET /api/client/<ip> on the proxy; kind is what the upstream will do
api_client(cache, ts, token, ip, kind, t) ==
  IF token # api_token THEN ProxyUnauthorized(cache, ts)
  ELSE IF ~get_cached(cache, ts, ip, t).none THEN ProxyCached(cache, ts, ip)
  ELSE ClientMissed(cache, ts, ip, get_server_for_ip(ip), kind, t)

\* The error map without the upstreams whose future raised.
errors_of_Unfiled(outcomes) ==
  {<<servers[s], error_of(outcomes[s].kind)>> :
     s \in {x \in Upstreams : outcomes[x].kind \in Failures \ {"raise"}}}

\* api_clients: errors[srv["host"]] for the upstreams that failed
errors_of(outcomes) ==
  {<<servers[s], error_of(outcomes[s].kind)>> : s \in {x \in Upstreams : ~success(outcomes[x].kind)}}

\* api_clients: responses, in the order in which the futures completed, as
\* the client lists merge_clients reads from them (none for a 404)
RECURSIVE responses_of(_, _, _)
responses_of(outcomes, order, i) ==
  IF i > Len(order) THEN <<>>
  ELSE (IF success(outcomes[order[i]].kind) THEN <<outcomes[order[i]].clients>> ELSE <<>>)
         \o responses_of(outcomes, order, i + 1)

ClientsMerged(cache, ts, merged, errors, order, t) ==
  ProxyStore(cache, ts, all_clients, 200, ProxyResponse("", NULL, merged, OrNone(errors), FALSE),
             order, t)

\* GET /api/clients on the proxy; outcomes is what each upstream will do and
\* order the order in which the futures complete
api_clients(cache, ts, token, outcomes, order, policy, t) ==
  IF token # api_token THEN ProxyUnauthorized(cache, ts)
  ELSE IF ~get_cached(cache, ts, all_clients, t).none THEN ProxyCached(cache, ts, all_clients)
  ELSE ClientsMerged(cache, ts, merge_clients(responses_of(outcomes, order, 1), policy),
                     errors_of(outcomes), order, t)

\* cfg["api_token"], which the proxy also sends upstream, or another value
ProxyTokens == {api_token, "guess"}

\* The requests the model lets arrive keep at most MaxCached cached responses.
ProxyRoom(cache) ==
  \/ Cardinality({k \in ProxyKeys : ~cache[k].none}) <= MaxCached
  \/ Cardinality({k \in ProxyKeys : ~cache[k].none})
       <= Cardinality({k \in ProxyKeys : ~_cache[k].none})

Proxy(r, answers, merged) ==
  /\ ProxyRoom(r.cache)
  /\ _cache' = r.cache
  /\ _cache_ts' = r.ts
  /\ responses' = answers
  /\ clients' = merged
  /\ UNCHANGED <<engine, threads, api_cache, duplicate_mac_policy, inner>>

ProxyClient(token, ip, kind) ==
  \E r \in {api_client(_cache, _cache_ts, token, ip, kind, now)} : Proxy(r, responses, clients)

\* Two of the orders in which the futures of the upstreams can complete.
Completions == {[s \in Upstreams |-> s], [s \in Upstreams |-> Len(servers) + 1 - s]}

\* The list each upstream holds in the proxy's own runs: the first and the
\* last know the same MAC at the same address.
UpstreamClients ==
  << <<Client(1, 2, NoStamp, <<1, 2>>)>>,
     <<Client(2, 2, <<1, 2>>, <<1, 2>>)>>,
     <<Client(1, 2, <<2, 1>>, <<2, 1>>)>> >>

ListKinds == {"clients", "timeout", "http", "raise"}

\* What the upstreams do with one fan-out.
FanOuts ==
  {[s \in Upstreams |-> Outcome(kinds[s], IF kinds[s] = "clients" THEN UpstreamClients[s] ELSE <<>>)] :
     kinds \in [Upstreams -> ListKinds]}

ProxyClients(token, outcomes, order) ==
  \E r \in {api_clients(_cache, _cache_ts, token, outcomes, order, duplicate_mac_policy, now)} :
    IF r.contacted = <<>> THEN Proxy(r, responses, clients)
    ELSE Proxy(r, responses_of(outcomes, order, 1), r.response.clients)

NextProxy ==
  \/ Tick
  \/ \E token \in ProxyTokens, ip \in ProxyIps, kind \in ClientOutcomes :
       ProxyClient(token, ip, kind)
  \/ \E token \in ProxyTokens, outcomes \in FanOuts, order \in Completions :
       ProxyClients(token, outcomes, order)

SpecProxy == (\E policy \in Policies : Loaded(policy, <<>>)) /\ [][NextProxy]_vars

\* ---- merge_clients on its own
\* The records an upstream can list: every row has a mac and updated_at.
MaxListedIp == 2
Listed ==
  {Client(m, ip, e, u) : m \in Devices, ip \in 0..MaxListedIp, e \in {NoStamp} \cup Stamps,
                         u \in Stamps}

Lone == {<<c>> : c \in Listed}

\* The list of one node: mac and ip are UNIQUE in its table.
Pairs ==
  {p \in Listed \X Listed : p[2].mac > p[1].mac /\ (p[2].ip = NULL \/ p[2].ip # p[1].ip)}

\* Two upstreams, or three that each list the first device.
UpstreamAnswers ==
  {<<a, b>> : a \in {<<>>} \cup Lone \cup Pairs, b \in {<<>>} \cup Lone}
    \cup {<<a, b, c>> : a \in {l \in Lone : l[1].mac = 1}, b \in {l \in Lone : l[1].mac = 1},
                        c \in {l \in Lone : l[1].mac = 1}}

\* api_clients: clients = merge_clients(responses)
Merge ==
  /\ clients = <<>>
  /\ clients' = merge_clients(responses, duplicate_mac_policy)
  /\ UNCHANGED <<engine, threads, api_cache, _cache, _cache_ts, duplicate_mac_policy, responses,
                 inner>>

SpecMerge ==
  /\ \E policy \in Policies, answers \in UpstreamAnswers : Loaded(policy, answers)
  /\ [][Merge]_vars

\* The token tests of the node and of the proxy side by side.
NextGates ==
  \/ Tick
  \/ \E mac \in Senders, xid \in XIDS, req \in {NULL} \cup IPS : Request(mac, xid, req)
  \/ \E mac \in Senders, ciaddr \in IPS : Release(mac, ciaddr)
  \/ \E token \in Tokens, ip \in IPS : ApiClient(token, ip)
  \/ \E token \in Tokens : ApiClients(token)
  \/ \E token \in ProxyTokens, ip \in ProxyIps : ProxyClient(token, ip, "client")
  \/ \E token \in ProxyTokens, outcomes \in {[s \in Upstreams |-> Outcome("clients", UpstreamClients[s])]} :
       ProxyClients(token, outcomes, [s \in Upstreams |-> s])

SpecGates == Init /\ [][NextGates]_vars

\* What a request with a token other than api_token gets from the node:
\* 401, a body without lease data, the cache and the lease table as they
\* were, no call of db_manager.
NodeRefuses(r) ==
  /\ r.status = 401
  /\ r.response = Unauthorized
  /\ r.cache = api_cache
  /\ r.d.l = leases
  /\ r.queries = 0

\* The same from the proxy: 401, no data, the cache and its timestamps as
\* they were, no upstream queried.
ProxyRefuses(r) ==
  /\ r.status = 401
  /\ r.response.ip = NULL /\ r.response.clients = <<>>
  /\ r.cache = _cache
  /\ r.ts = _cache_ts
  /\ r.contacted = <<>>

\* C23: on the node and on the proxy, /api/client/<ip> and /api/clients with
\* a token other than the configured api_token answer 401 without lease
\* data, whatever the lease table and the caches hold; no lease is read, no
\* upstream is contacted and the response cache is left as it was.
C23_WrongTokenGets401 ==
  \A token \in Tokens \ {api_token} :
    /\ \A ip \in IPS : NodeRefuses(get_client_info(leases, api_cache, token, ip, now))
    /\ NodeRefuses(get_all_clients(leases, api_cache, token, now))
    /\ \A ip \in ProxyIps, kind \in ClientOutcomes :
         ProxyRefuses(api_client(_cache, _cache_ts, token, ip, kind, now))
    /\ \A outcomes \in FanOuts, order \in Completions :
         ProxyRefuses(api_clients(_cache, _cache_ts, token, outcomes, order,
                                  duplicate_mac_policy, now))

\* The node's cache holds a client within its TTL and the proxy's cache holds
\* one too: an authorized request would be served lease data from both.
C23_Witness ==
  /\ \E ip \in IPS :
       /\ ApiHit(api_cache, ip, now)
       /\ api_cache[ip].response.mac # NULL
       /\ get_client_info(leases, api_cache, api_token, ip, now).status = 200
  /\ \E ip \in ProxyIps :
       /\ ~get_cached(_cache, _cache_ts, ip, now).none
       /\ _cache[ip].error = ""

\* The status that goes with the answer: 200 with the client holding ip, 404
\* with "Client not found".
StatusFollowsAnswer(r, ip) ==
  /\ r.response.error \in {"", "Client not found"}
  /\ r.response.error = "" => (r.status = 200 /\ r.response.ip = ip /\ r.response.mac # NULL)
  /\ r.response.error = "Client not found" => r.status = 404

\* C24: every authorized GET /api/client/<ip> on the node answers 200 with
\* the lease record when the answer, fresh or from the TTL cache, is a live
\* lease holding ip, and 404 "Client not found" when the answer is that no
\* live lease holds ip, on the first request and on every repeated one
\* within api_cache_ttl.
C24_StatusFollowsAnswer ==
  \A ip \in IPS : StatusFollowsAnswer(get_client_info(leases, api_cache, api_token, ip, now), ip)

\* "Client not found" for ip is in the cache and within its TTL.
C24_Witness ==
  \E ip \in IPS :
    /\ ApiHit(api_cache, ip, now)
    /\ api_cache[ip].response.error = "Client not found"
    /\ get_client_info(leases, api_cache, api_token, ip, now).status = 200

\* The configured upstreams whose /24 network holds ip.
Responsible(ip) == {s \in Upstreams : servers[s] \div SubnetSize = ip \div SubnetSize}

RoutedOrRefused(r, ip, missed) ==
  /\ Responsible(ip) = {} => (r.status = 400 /\ r.contacted = <<>>)
  /\ (Responsible(ip) # {} /\ missed) =>
       (/\ Len(r.contacted) = 1
        /\ r.contacted[1] \in Responsible(ip)
        /\ \A s \in Responsible(ip) : r.contacted[1] <= s)

\* C25: an authorized GET /api/client/<ip> on the proxy for an ip in no
\* upstream's /24 network is answered 400 and contacts no upstream, on the
\* first request and on every repeated one within the cache TTL; an ip
\* inside an upstream's network has exactly one upstream queried, the first
\* configured one whose network holds it.
C25_UnknownSubnetIs400 ==
  \A ip \in ProxyIps, kind \in ClientOutcomes :
    RoutedOrRefused(api_client(_cache, _cache_ts, api_token, ip, kind, now), ip,
                    get_cached(_cache, _cache_ts, ip, now).none)

\* The 400 body of an ip without upstream is in the cache, within its TTL.
C25_Witness ==
  \E ip \in ProxyIps :
    /\ Responsible(ip) = {}
    /\ ~get_cached(_cache, _cache_ts, ip, now).none
    /\ _cache[ip].error = "No DHCP server responsible for this IP subnet"
    /\ api_client(_cache, _cache_ts, api_token, ip, "client", now).status = 200

\* The successful upstreams in the order of completion, and their lists.
Succeeded(outcomes, order) == SelectSeq(order, LAMBDA s : outcomes[s].kind = "clients")

SucceededLists(outcomes, order) ==
  [i \in 1..Len(Succeeded(outcomes, order)) |-> outcomes[Succeeded(outcomes, order)[i]].clients]

Aggregate(r, outcomes, order, policy) ==
  /\ r.status = 200
  /\ Len(r.contacted) = Len(servers)
  /\ \A s \in Upstreams : Cardinality({i \in 1..Len(r.contacted) : r.contacted[i] = s}) = 1
  /\ \A s \in Upstreams :
       outcomes[s].kind # "clients" <=> \E e \in r.response.errors.of : e[1] = servers[s]
  /\ r.response.clients = merge_clients(SucceededLists(outcomes, order), policy)
  /\ r.response.total = Len(r.response.clients)
  /\ r.response.errors.null <=> \A s \in Upstreams : outcomes[s].kind = "clients"
  /\ r.cache[all_clients] = r.response

\* C26: an authorized GET /api/clients on the proxy that misses the cache
\* queries every upstream exactly once, waits for all and answers 200 with
\* the aggregate: every upstream that timed out, failed or raised is in
\* errors under its host, the clients of the successful ones are what is
\* merged, total is the number of clients returned, and errors is null
\* exactly when no upstream failed.
C26_FanOutAggregates ==
  get_cached(_cache, _cache_ts, all_clients, now).none =>
    \A outcomes \in FanOuts, order \in Completions :
      Aggregate(api_clients(_cache, _cache_ts, api_token, outcomes, order, duplicate_mac_policy,
                            now),
                outcomes, order, duplicate_mac_policy)

\* An aggregate is cached that was made of two upstreams' clients while the
\* third had failed, and its TTL has run out: the next request fans out again.
C26_Witness ==
  /\ ~_cache[all_clients].none
  /\ ~_cache[all_clients].errors.null
  /\ Len(responses) = 2
  /\ clients # <<>>
  /\ get_cached(_cache, _cache_ts, all_clients, now).none

\* ---- claims on merge_clients
Records == Concat(responses)

MacsOf(s) == {s[i].mac : i \in 1..Len(s)}

OfMac(s, m) == SelectSeq(s, LAMBDA c : c.mac = m)

\* (expire_at, updated_at) of a above that of b
PairGreater(a, b) ==
  \/ StrGreater(a.expire_at, b.expire_at)
  \/ a.expire_at = b.expire_at /\ StrGreater(a.updated_at, b.updated_at)

\* expire_at, or updated_at for a record without expire_at
Freshness(c) == IF c.expire_at = NoStamp THEN c.updated_at ELSE c.expire_at

\* The positions in s of the records no other record of s is above.
Tops(s, Above(_, _)) == {i \in 1..Len(s) : \A j \in 1..Len(s) : ~Above(s[j], s[i])}

FreshnessAbove(a, b) == StrGreater(Freshness(a), Freshness(b))

\* Every MAC of the input is once in the output.
OncePerMac(in, out) ==
  /\ MacsOf(out) = MacsOf(in)
  /\ \A m \in MacsOf(in) : Len(OfMac(out, m)) = 1

\* The output is what merge_clients makes of the answers, and is in the
\* variable once Merge has run.
MergedAs(out) == clients \in {<<>>, out}

PreferIp(out, asStated) ==
  /\ MergedAs(out)
  /\ OncePerMac(Records, out)
  /\ \A m \in MacsOf(Records) :
       IF asStated
       THEN \E i \in Tops(OfMac(Records, m), PairGreater) : OfMac(out, m)[1] = OfMac(Records, m)[i]
       ELSE \E i \in Tops(OfMac(sort_by_ip(Records), m), FreshnessAbove) :
              /\ OfMac(out, m)[1] = OfMac(sort_by_ip(Records), m)[i]
              /\ \A j \in Tops(OfMac(sort_by_ip(Records), m), FreshnessAbove) : i <= j

\* C27: under prefer_ip every MAC of the input is exactly once in the
\* output, with the record of greatest freshness among that MAC's records,
\* freshness being expire_at, or updated_at where expire_at is absent, both
\* compared as the strings they are; of several records of one freshness the
\* one that is first in the IP-descending list is kept.
C27_PreferIp ==
  duplicate_mac_policy = "prefer_ip" => PreferIp(merge_clients(responses, "prefer_ip"), FALSE)

\* C27 as stated: the kept record has the maximum (expire_at, updated_at).
C27_Original ==
  duplicate_mac_policy = "prefer_ip" => PreferIp(merge_clients(responses, "prefer_ip"), TRUE)

\* Merged under prefer_ip: two upstreams listed the same MAC with the same
\* expire_at, and a third record lost to a fresher one.
C27_Witness ==
  /\ duplicate_mac_policy = "prefer_ip"
  /\ clients # <<>>
  /\ Len(clients) < Len(Records)
  /\ \E i, j \in 1..Len(Records) :
       /\ i # j
       /\ Records[i].mac = Records[j].mac
       /\ Records[i].expire_at = Records[j].expire_at
       /\ Records[i].expire_at # NoStamp
       /\ Records[i].updated_at # Records[j].updated_at

\* Numeric IP descending, the records without ip last.
IpDescending(s) == \A i, j \in 1..Len(s) : i < j => s[i].ip >= s[j].ip

Times(s, c) == Cardinality({i \in 1..Len(s) : s[i] = c})

\* The same records, each as many times.
SameRecords(a, b) ==
  /\ Len(a) = Len(b)
  /\ \A i \in 1..Len(a) : Times(a, a[i]) = Times(b, a[i])

KeepAll(out) ==
  /\ MergedAs(out)
  /\ SameRecords(out, Records)
  /\ IpDescending(out)

\* One record per MAC: the last of that MAC in the IP-descending list, which
\* is one with the lowest ip.
MergePolicy(out) ==
  /\ MergedAs(out)
  /\ OncePerMac(Records, out)
  /\ IpDescending(out)
  /\ \A m \in MacsOf(Records) :
       /\ OfMac(out, m)[1] = OfMac(sort_by_ip(Records), m)[Len(OfMac(Records, m))]
       /\ \A i \in 1..Len(Records) : Records[i].mac = m => OfMac(out, m)[1].ip <= Records[i].ip

\* C28: under keep_all the output is the concatenation of the successful
\* upstreams' records in numeric IP descending order, none dropped; under
\* merge it holds exactly one record per MAC, in IP descending order, the
\* one met first when the IP-descending list is read backwards (the record
\* of that MAC with the lowest IP).
C28_KeepAllAndMerge ==
  /\ duplicate_mac_policy = "keep_all" => KeepAll(merge_clients(responses, "keep_all"))
  /\ duplicate_mac_policy = "merge" => MergePolicy(merge_clients(responses, "merge"))

\* Merged under policy merge: a MAC listed by two upstreams at two
\* addresses is in the output with the lower one.
C28_Witness ==
  /\ duplicate_mac_policy = "merge"
  /\ clients # <<>>
  /\ \E i, j \in 1..Len(Records) :
       /\ Records[i].mac = Records[j].mac
       /\ Records[i].ip > Records[j].ip
       /\ Records[j].ip # NULL
       /\ OfMac(clients, Records[i].mac) = <<Records[j]>>

\* ------------------------------------------------- C29: a cache hit is a frame
\* The reply r to a message whose key holds a non-expired entry: nothing is
\* written to the lease table, no history row is appended, no entry is
\* cached anew, and the packet sent is the cached one (the NAK of the
\* blocked check when the sender is blocked: such a message never reaches
\* the lookup).
HitFrame(r, cache, key) ==
  /\ r.d.l = leases
  /\ r.d.h = <<>>
  /\ r.d.ok
  /\ ~r.entry.present
  /\ r.sent = IF is_device_blocked(leases, key[2]) THEN NakPacket
              ELSE CachedPacket(cache, key)

\* An entry of the cache that current_time has reached: present, not served.
Unpurged(cache, key) == cache[key].present /\ cache[key].expire_at <= now

\* C29: a DISCOVER, REQUEST or INFORM that hits a non-expired entry of its
\* retransmission cache is answered with the cached packet, mutates no
\* lease row and appends no history event; an entry is served only while
\* now < its expire_at, which is the time of the first reply plus
\* cache_ttl: an entry the idle-time purge has not yet removed is answered
\* as if it had been removed.
C29_HitIsFrame ==
  /\ \A k \in DKeys :
       /\ CacheHit(discover_cache, k, now) =>
            HitFrame(OnDiscover(leases, discover_cache, k[2], k[1], now), discover_cache, k)
       /\ OnDiscover(leases, discover_cache, k[2], k[1], now)
            = OnDiscover(leases, PurgeExpired(discover_cache, now), k[2], k[1], now)
       /\ discover_cache[k].present => discover_cache[k].expire_at <= now + cache_ttl
  /\ \A k \in RKeys :
       /\ CacheHit(request_cache, k, now) =>
            HitFrame(OnRequest(leases, request_cache, k[2], k[1], k[3], now), request_cache, k)
       /\ OnRequest(leases, request_cache, k[2], k[1], k[3], now)
            = OnRequest(leases, PurgeExpired(request_cache, now), k[2], k[1], k[3], now)
       /\ request_cache[k].present => request_cache[k].expire_at <= now + cache_ttl
  /\ \A k \in IKeys :
       /\ CacheHit(inform_cache, k, now) =>
            HitFrame(OnInform(leases, inform_cache, k[2], k[1], k[3], now), inform_cache, k)
       /\ OnInform(leases, inform_cache, k[2], k[1], k[3], now)
            = OnInform(leases, PurgeExpired(inform_cache, now), k[2], k[1], k[3], now)
       /\ inform_cache[k].present => inform_cache[k].expire_at <= now + cache_ttl

\* A REQUEST of an unblocked sender hits a non-expired entry, and the same
\* REQUEST answered without the cache would have appended a history event.
C29_Witness ==
  \E k \in RKeys :
    /\ CacheHit(request_cache, k, now)
    /\ ~is_device_blocked(leases, k[2])
    /\ OnRequest(leases, PurgeExpired(request_cache, now + cache_ttl), k[2], k[1], k[3], now).d.h # <<>>

\* An OFFER is still in the cache at its expire_at, the purge not having run:
\* the DISCOVER is answered anew and cached anew.
C29_WitnessUnpurged ==
  \E k \in DKeys :
    /\ Unpurged(discover_cache, k)
    /\ ~is_device_blocked(leases, k[2])
    /\ OnDiscover(leases, discover_cache, k[2], k[1], now).entry.present

\* ------------------------------------------------------------ C30: DECLINE
\* ip is the address of m's live DYNAMIC lease.
DeclinesOwnLease(m, ip) ==
  Live(leases, m) /\ ip # NULL /\ leases[m].ip = ip /\ leases[m].lease_type = "DYNAMIC"

\* The pool addresses no live row holds once m has given up its own.
FreeAfterDecline(m) ==
  {a \in Pool : \A o \in MACS : (o # m /\ Live(leases, o)) => leases[o].ip # a}

Recorded(h, m, action, ip, new_ip) ==
  \E i \in 1..Len(h) :
    h[i].mac = m /\ h[i].action = action /\ h[i].ip = ip /\ h[i].new_ip = new_ip

\* The reply r to DECLINE(m, ip). silentWhenBlocked: a blocked sender too is
\* given no response.
DeclineRule(r, m, ip, silentWhenBlocked) ==
  IF DeclinesOwnLease(m, ip)
    THEN /\ Recorded(r.d.h, m, "DECLINE", ip, NULL)
         /\ IF FreeAfterDecline(m) # {}
              THEN /\ r.sent.type = "ACK"
                   /\ r.sent.yiaddr \in FreeAfterDecline(m)
                   /\ r.d.l[m].ip = r.sent.yiaddr
                   /\ r.d.l[m].is_expired = 0
                   /\ Recorded(r.d.h, m, "LEASE_ISSUED", NULL, r.sent.yiaddr)
              ELSE /\ r.sent = NoPacket
                   /\ r.d.l[m].ip = NULL
                   /\ r.d.l[m].is_expired = 1
         /\ \A o \in MACS \ {m} : r.d.l[o] = leases[o]
    ELSE /\ r.d.l = leases
         /\ r.sent = IF is_device_blocked(leases, m) /\ ~silentWhenBlocked
                       THEN NakPacket ELSE NoPacket

AllDeclines(silentWhenBlocked) ==
  \A m \in MACS, ip \in {NULL} \cup IPS :
    DeclineRule(OnDecline(leases, m, ip, now), m, ip, silentWhenBlocked)

\* C30 (amended): DECLINE(M, ip) with ip the address of M's live DYNAMIC
\* lease marks the lease expired and records a DECLINE event; then, if a
\* pool address is free, it is committed to M (LEASE_ISSUED) and an ACK with
\* that address is sent, and otherwise no response is sent and M's row ends
\* with ip NULL and is_expired = 1. A DECLINE for an ip that is not M's
\* current dynamic lease (or for a STATIC lease) changes no lease row and
\* gets no response, or the NAK of the blocked check when M is blocked.
C30_Decline == AllDeclines(FALSE)

\* C30 as stated: no response to any DECLINE for an ip that is not the
\* sender's dynamic lease.
C30_Original == AllDeclines(TRUE)

\* M declines its dynamic lease, which lies above the pool, while the pool
\* is full: no response, the row left without an address.
C30_Witness ==
  \E m \in MACS :
    /\ Live(leases, m) /\ leases[m].ip # NULL
    /\ DeclinesOwnLease(m, leases[m].ip)
    /\ FreeAfterDecline(m) = {}
    /\ OnDecline(leases, m, leases[m].ip, now).sent = NoPacket

\* M declines its dynamic lease and is given an address of the pool.
C30_WitnessAck ==
  \E m \in MACS :
    /\ Live(leases, m) /\ leases[m].ip # NULL
    /\ DeclinesOwnLease(m, leases[m].ip)
    /\ OnDecline(leases, m, leases[m].ip, now).sent.type = "ACK"

\* ------------------------------------------- C31: a deleted MAC comes back
Deleted(L, m) == L[m].exists /\ L[m].deleted

\* The number of events of h with the given mac and action.
CountOf(h, m, action) ==
  Cardinality({i \in 1..Len(h) : h[i].mac = m /\ h[i].action = action})

\* The reply r to a REQUEST of the soft-deleted m, when it is an ACK: the row
\* is live again with the acknowledged address, DYNAMIC and not expired,
\* and one DEVICE_RESTORED event was appended.
Reopened(r, m) ==
  r.sent.type = "ACK" =>
    /\ Live(r.d.l, m)
    /\ r.d.l[m].ip = r.sent.yiaddr
    /\ r.d.l[m].lease_type = "DYNAMIC"
    /\ r.d.l[m].is_expired = 0
    /\ CountOf(r.d.h, m, "DEVICE_RESTORED") = 1

\* C31: a REQUEST of a soft-deleted MAC M that is answered with ACK(X)
\* reopens M's row (deleted_at cleared), appends exactly one DEVICE_RESTORED
\* event, and leaves the row live with ip = X, lease_type DYNAMIC and
\* is_expired = 0. Stated for the REQUESTs the handler answers itself: an
\* ACK echoed from the retransmission cache touches no row.
C31_RequestRestores ==
  \A m \in MACS, x \in XIDS, req \in {NULL} \cup IPS :
    (Deleted(leases, m) /\ ~CacheHit(request_cache, <<x, m, req>>, now)) =>
      Reopened(OnRequest(leases, request_cache, m, x, req, now), m)

\* A soft-deleted MAC is acknowledged an address on a cache miss.
C31_Witness ==
  \E m \in MACS, x \in XIDS, req \in {NULL} \cup IPS :
    /\ Deleted(leases, m)
    /\ ~CacheHit(request_cache, <<x, m, req>>, now)
    /\ OnRequest(leases, request_cache, m, x, req, now).sent.type = "ACK"

\* ------------------------------- C32: migrate_subnet and the rows in place
\* DBManager._is_in_subnet: (ip_int & mask_int) == network_int
_is_in_subnet(ip) == ip # NULL /\ ip <= MaxIp

\* DBManager.check_subnet_consistency: a live row with an ip outside the
\* configured subnet starts the migration.
check_subnet_consistency(L) ==
  \E m \in MACS : Live(L, m) /\ L[m].ip # NULL /\ ~_is_in_subnet(L[m].ip)

\* The rows of T, column by column, as they are read back from the file.
OnFile(T) == [m \in MACS |-> [column \in DOMAIN NoRow |-> T[m][column]]]

\* The tables found at a later start: a migration has run (the rows it found
\* no address for are still on the old network) and one client has since
\* released its address.
Restarted(L) ==
  UNION {{mark_lease_expired(Store(OnFile(T)), m, T[m].ip).l : m \in MACS} :
           T \in Migrated(L)}

\* The rows of T whose ip lies in the configured subnet keep ip and
\* lease_type in U.
InPlace(T, U) ==
  \A m \in MACS :
    (T[m].exists /\ _is_in_subnet(T[m].ip)) =>
      U[m].ip = T[m].ip /\ U[m].lease_type = T[m].lease_type

\* C32: when the startup check finds a live ip outside the configured subnet
\* and runs migrate_subnet, the rows whose ip is already inside the
\* configured subnet keep their ip and lease_type.
C32_MigrationKeepsInside ==
  \A T \in Restarted(leases) :
    check_subnet_consistency(T) =>
      \A o \in Orders(WithIp(T)) : InPlace(T, migrate_rows(Store(T), o, 1).l)

\* At a start the table holds a row on the old network, a row inside the
\* configured subnet and a free pool address.
C32_Witness ==
  \E T \in Restarted(leases) :
    /\ check_subnet_consistency(T)
    /\ \E m \in MACS : Live(T, m) /\ _is_in_subnet(T[m].ip)
    /\ _get_new_dynamic_ip(T) # NULL

\* ------------------------------------------ C33: an ACK follows the commit
\* The reply r to m, when it is an ACK: m's live row holds the acknowledged
\* address and is not expired.
Committed(r, m) ==
  r.sent.type = "ACK" =>
    /\ Live(r.d.l, m)
    /\ r.d.l[m].ip = r.sent.yiaddr
    /\ r.d.l[m].is_expired = 0

\* C33: whenever the engine sends ACK(X) for a REQUEST or a DECLINE of M
\* that was not served from the retransmission cache, M's live row holds
\* ip = X with is_expired = 0 at that moment, whatever the sweeper and the
\* administrator did while the engine was handling the packet.
C33_AckMeansCommitted ==
  /\ pending.active =>
       Committed(RequestCommit(Store(leases), pending.mac, pending.yiaddr,
                               pending.lease_type, pending.t0, now), pending.mac)
  /\ EngineIdle =>
       \A m \in MACS, ip \in IPS : Committed(OnDecline(leases, m, ip, now), m)

\* The engine has decided to acknowledge a REQUEST and is about to commit it.
C33_Witness ==
  /\ pending.active
  /\ RequestCommit(Store(leases), pending.mac, pending.yiaddr,
                   pending.lease_type, pending.t0, now).sent.type = "ACK"

\* ------------------------------------------- C34: an OFFER can be taken up
\* The reply to REQUEST(requested_ip = X) of m, sent right after the reply o
\* to m's DISCOVER, when o is OFFER(X): ACK(X).
TakenUp(o, m, x) ==
  o.sent.type = "OFFER" =>
    OnRequest(o.d.l, request_cache, m, x, o.sent.yiaddr, now).sent
      = Packet("ACK", o.sent.yiaddr)

\* C34: when a DISCOVER of a non-blocked MAC M is answered with OFFER(X) and
\* M then sends REQUEST(requested_ip = X), nothing happening in between, the
\* reply is ACK(X), whatever M's row went through before (blocked and
\* unblocked, reset, switched between STATIC and DYNAMIC, soft-deleted).
\* Stated for the OFFERs the handler makes itself: an OFFER echoed from the
\* retransmission cache is as old as its entry.
C34_OfferThenAck ==
  \A m \in MACS, d \in XIDS, x \in XIDS :
    (~is_device_blocked(leases, m) /\ ~CacheHit(discover_cache, <<d, m>>, now)) =>
      TakenUp(OnDiscover(leases, discover_cache, m, d, now), m, x)

\* A MAC whose row was soft-deleted is offered an address on a cache miss.
C34_Witness ==
  \E m \in MACS, d \in XIDS :
    /\ Deleted(leases, m)
    /\ ~CacheHit(discover_cache, <<d, m>>, now)
    /\ OnDiscover(leases, discover_cache, m, d, now).sent.type = "OFFER"

\* ------------------------------------- C35: nothing is leased while blocked
\* block_device(m) has run and unblock_device(m) has not: only these two
\* write is_blocked, and a soft-deleted row keeps the column.
BlockStands(L, m) == L[m].exists /\ L[m].is_blocked = 1

CarriesAddress(pkt) == pkt.type \in {"OFFER", "ACK"} /\ pkt.yiaddr # NULL

\* No reply to a packet of m carries an address (live: only for the rows
\* that are not soft-deleted).
NothingLeased(m) ==
  /\ \A x \in XIDS : ~CarriesAddress(OnDiscover(leases, discover_cache, m, x, now).sent)
  /\ \A x \in XIDS, req \in {NULL} \cup IPS :
       ~CarriesAddress(OnRequest(leases, request_cache, m, x, req, now).sent)
  /\ \A ip \in IPS : ~CarriesAddress(OnDecline(leases, m, ip, now).sent)
  /\ \A x \in XIDS, c \in InformAddrs :
       ~CarriesAddress(OnInform(leases, inform_cache, m, x, c, now).sent)

\* C35: from block_device(M) until unblock_device(M) no OFFER and no ACK
\* carrying an address is sent to M, whatever happens in between, an admin
\* delete of the blocked row followed by DISCOVER or REQUEST of M included.
C35_BlockedGetsNoAddress ==
  \A m \in MACS : BlockStands(leases, m) => NothingLeased(m)

\* The same for the blocked rows that are not soft-deleted.
C35_LiveBlockedGetsNoAddress ==
  \A m \in MACS : is_device_blocked(leases, m) => NothingLeased(m)

\* A blocked row has been soft-deleted.
C35_Witness ==
  \E m \in MACS : BlockStands(leases, m) /\ Deleted(leases, m)

\* ---------------------------------------------------------------------
\* block_device against a REQUEST inside DBManager.update_ip
\* ---------------------------------------------------------------------

\* DHCPServer.update_lease up to its call of DBManager.update_ip and through
\* the blocked check that opens update_ip: the store, and whether update_ip's
\* transaction follows.
update_lease_enter(D, mac, ip, lease_type) ==
  IF is_device_blocked(D.l, mac) \/ ~D.l[mac].exists THEN [d |-> D, call |-> FALSE]
  ELSE IF D.l[mac].deleted
    THEN LET D1 == _insert_history([D EXCEPT !.l[mac].deleted = FALSE],
                                   mac, "DEVICE_RESTORED", NULL, NULL, "DHCP")
         IN  [d |-> D1, call |-> ~is_device_blocked(D1.l, mac)]
  ELSE [d |-> D,
        call |-> /\ ~(ip = D.l[mac].ip /\ lease_type = D.l[mac].lease_type)
                 /\ ip # D.l[mac].ip
                 /\ ip # NULL]

\* DHCPServer.update_lease from update_ip's transaction on. A restored row
\* gets no update_lease_type.
update_lease_write(D, mac, ip, lease_type, call, t) ==
  IF call.retype
    THEN update_lease_retype(update_ip_write(D, mac, ip, "DHCP", t), mac, lease_type,
                             call.old_lease_type, t)
  ELSE update_ip_write(D, mac, ip, "DHCP", t)

\* The engine passes update_ip's is_device_blocked.
UpdateIpEnter ==
  /\ pending.active
  /\ ~db_call.active
  /\ \E e \in {update_lease_enter(Store(leases), pending.mac, pending.yiaddr, pending.lease_type)} :
         /\ e.call
         /\ leases' = e.d.l
  /\ db_call' = [active |-> TRUE, retype |-> ~leases[pending.mac].deleted,
                 old_lease_type |-> leases[pending.mac].lease_type]
  /\ UNCHANGED <<now, discover_cache, request_cache, inform_cache, pending>>
  /\ UNCHANGED <<threads, beyond, sweeps, lease_history, gauge>>

\* update_ip's transaction, the rest of update_lease, and the ACK.
UpdateIpWrite ==
  /\ db_call.active
  /\ \E r \in {Ack(update_lease_write(Store(leases), pending.mac, pending.yiaddr,
                                      pending.lease_type, db_call, now),
                   pending.yiaddr, pending.t0 + cache_ttl)} :
         /\ leases' = r.d.l
         /\ request_cache' = Put(request_cache, <<pending.xid, pending.mac, pending.req>>, r.entry)
  /\ pending' = NoPending
  /\ db_call' = NoCall
  /\ UNCHANGED <<now, discover_cache, inform_cache>>
  /\ UNCHANGED <<threads, beyond, sweeps, lease_history, gauge>>

\* An update_lease that does not come to update_ip's transaction.
RequestFinish ==
  /\ ~db_call.active
  /\ pending.active
  /\ ~update_lease_enter(Store(leases), pending.mac, pending.yiaddr, pending.lease_type).call
  /\ RequestEnd

\* The engine thread with update_ip in two steps, and the web thread's
\* block_device and unblock_device.
NextBlock ==
  \/ Tick
  \/ \E mac \in Devices, xid \in XIDS, req \in {NULL} \cup IPS : RequestBegin(mac, xid, req)
  \/ UpdateIpEnter
  \/ UpdateIpWrite
  \/ RequestFinish
  \/ \E mac \in Devices, req \in IPS : Decline(mac, req)
  \/ \E mac \in Devices, ciaddr \in IPS : Release(mac, ciaddr)
  \/ \E mac \in Devices : WebBlockDevice(mac)
  \/ \E mac \in Devices : WebUnblockDevice(mac)

SpecBlock == Init /\ [][NextBlock]_vars

\* C36: under any interleaving of block_device(M) with the engine handling
\* a REQUEST or DECLINE from M, a row with is_blocked = 1 has ip NULL.
C36_BlockedHasNoIp ==
  \A m \in MACS : (leases[m].exists /\ leases[m].is_blocked = 1) => leases[m].ip = NULL

\* block_device(M) came after update_ip's blocked check and before its
\* transaction.
C36_Witness ==
  /\ db_call.active
  /\ Live(leases, pending.mac)
  /\ leases[pending.mac].is_blocked = 1

\* The two steps of update_lease, taken together, are update_lease.
C36_TwoStepsAreOne ==
  \A m \in MACS, ip \in {NULL} \cup IPS, lease_type \in {"DYNAMIC", "STATIC"} :
    LET e == update_lease_enter(Store(leases), m, ip, lease_type)
        call == [active |-> TRUE, retype |-> ~leases[m].deleted,
                 old_lease_type |-> leases[m].lease_type]
    IN  e.call => update_lease(Store(leases), m, ip, lease_type, now).l
                    = update_lease_write(e.d, m, ip, lease_type, call, now).l

\* ---------------------------------------------------------------------
\* mark_expired_leases called from several threads
\* ---------------------------------------------------------------------

\* mark_expired_leases: the rows (mac, ip) its SELECT returns.
select_expired(L, t) == {<<m, L[m].ip>> : m \in Expirable(L, t)}

\* mark_expired_leases: one LEASE_EXPIRED row of lease_history per selected
\* row, each committed by _insert_history.
RECURSIVE insert_expired(_)
insert_expired(rows) ==
  IF rows = {} THEN <<>>
  ELSE LET row == CHOOSE x \in rows : \A y \in rows : x[1] <= y[1]
       IN  <<Event(row[1], "LEASE_EXPIRED", row[2], NULL, "DHCP")>>
             \o insert_expired(rows \ {row})

\* mark_expired_leases: its UPDATE, with the current_time of its SELECT.
update_expired(L, t) ==
  [m \in MACS |-> IF m \in Expirable(L, t) THEN [L[m] EXCEPT !.is_expired = 1, !.ip = NULL]
                  ELSE L[m]]

\* Thread s runs mark_expired_leases as far as fetchall().
SweepSelect(s) ==
  /\ ~sweeps[s].selected
  /\ sweeps' = [sweeps EXCEPT ![s] = [selected |-> TRUE, rows |-> select_expired(leases, now),
                                      current_time |-> now]]
  /\ UNCHANGED engine
  /\ UNCHANGED <<threads, beyond, db_call, lease_history, gauge>>

\* Thread s runs the rest of mark_expired_leases: the history rows, then the
\* UPDATE.
SweepMark(s) ==
  /\ sweeps[s].selected
  /\ lease_history' = lease_history \o insert_expired(sweeps[s].rows)
  /\ leases' = update_expired(leases, sweeps[s].current_time)
  /\ sweeps' = [sweeps EXCEPT ![s] = NoSweep]
  /\ UNCHANGED <<now, discover_cache, request_cache, inform_cache, pending>>
  /\ UNCHANGED <<threads, beyond, db_call, gauge>>

\* The callers of mark_expired_leases side by side, and the REQUESTs that
\* name their address (these do not come to find_free_ip).
NextSweep ==
  \/ Tick
  \/ \E mac \in Devices, xid \in XIDS, req \in IPS : Request(mac, xid, req)
  \/ \E s \in Sweepers : SweepSelect(s)
  \/ \E s \in Sweepers : SweepMark(s)

SpecSweep == Init /\ [][NextSweep]_vars

\* The LEASE_EXPIRED rows a step adds for m.
Added(m) ==
  {i \in (Len(lease_history) + 1)..Len(lease_history') : lease_history'[i].mac = m}

\* The step takes m's lease from active to expired.
Expires(m) == leases[m].is_expired = 0 /\ leases'[m].is_expired = 1

\* C37: when mark_expired_leases runs in several threads at once, each
\* transition of a lease from active to expired adds exactly one
\* LEASE_EXPIRED event, with the ip the lease held: the step that expires
\* the lease adds the event, and a lease that is expired already gets no
\* second one.
C37_OneEventPerExpiry ==
  [][\A m \in MACS :
       IF Expires(m)
         THEN /\ Cardinality(Added(m)) = 1
              /\ \A i \in Added(m) : lease_history'[i].ip = leases[m].ip
       ELSE leases[m].is_expired = 1 => Added(m) = {}]_vars

\* An event without a transition: the lease was renewed between a thread's
\* SELECT and its UPDATE.
C37_NoEventWithoutExpiry ==
  [][\A m \in MACS : Expires(m) \/ Added(m) = {}]_vars

\* Two threads have selected the same lapsed row, and one of them has
\* expired it.
C37_Witness ==
  \E s \in Sweepers :
    /\ sweeps[s].selected
    /\ \E row \in sweeps[s].rows :
         /\ leases[row[1]].is_expired = 1
         /\ \E i \in 1..Len(lease_history) :
              lease_history[i].mac = row[1] /\ lease_history[i].ip = row[2]

\* SELECT, history rows and UPDATE in one step are the mark_expired_leases
\* of the other specifications.
C37_OneStepSweep ==
  /\ mark_expired_leases(Store(leases), now).l = update_expired(leases, now)
  /\ mark_expired_leases(Store(leases), now).h = insert_expired(select_expired(leases, now))

\* ---------------------------------------------------------------------
\* The engine's counters against the metrics flusher
\* ---------------------------------------------------------------------

\* The increments of one message type the engine makes.
MaxCount == 2

\* run(): `self.metrics[k] += 1`, the read of the count (a missing key reads
\* as 0).
IncrementLoad(k) ==
  /\ ~increment.active
  /\ counted[k] < MaxCount
  /\ increment' = [active |-> TRUE, key |-> k, value |-> metrics[k]]
  /\ UNCHANGED <<metrics, flusher, sink, counted>>
  /\ UNCHANGED <<engine, threads, beyond, db_call, sweeps, lease_history>>

\* run(): `self.metrics[k] += 1`, the store of the count read plus one.
IncrementStore ==
  /\ increment.active
  /\ metrics' = [metrics EXCEPT ![increment.key] = increment.value + 1]
  /\ counted' = [counted EXCEPT ![increment.key] = @ + 1]
  /\ increment' = NoIncrement
  /\ UNCHANGED <<flusher, sink>>
  /\ UNCHANGED <<engine, threads, beyond, db_call, sweeps, lease_history>>

\* InfluxDBClient.write_dhcp_metrics: a point per message type with
\* count > 0.
write_dhcp_metrics(received, snapshot) ==
  [k \in MsgTypes |-> received[k] + snapshot[k]]

\* periodic_metrics_flush: `if self.metrics:` and the write.
FlushWrite ==
  /\ flusher = "sleep"
  /\ \E k \in MsgTypes : metrics[k] > 0
  /\ sink' = write_dhcp_metrics(sink, metrics)
  /\ flusher' = "written"
  /\ UNCHANGED <<metrics, increment, counted>>
  /\ UNCHANGED <<engine, threads, beyond, db_call, sweeps, lease_history>>

\* periodic_metrics_flush: self.metrics.clear()
FlushClear ==
  /\ flusher = "written"
  /\ metrics' = [k \in MsgTypes |-> 0]
  /\ flusher' = "sleep"
  /\ UNCHANGED <<increment, sink, counted>>
  /\ UNCHANGED <<engine, threads, beyond, db_call, sweeps, lease_history>>

NextMetrics ==
  \/ \E k \in MsgTypes : IncrementLoad(k)
  \/ IncrementStore
  \/ FlushWrite
  \/ FlushClear

SpecMetrics == Init /\ [][NextMetrics]_vars

\* C38: under any interleaving of the engine's increments with the flusher,
\* every increment is in exactly one snapshot sent to the sink: between
\* flushes, what the sink was sent and what the counters still hold add up
\* to the increments made.
C38_EveryIncrementOnce ==
  (flusher = "sleep" /\ ~increment.active) =>
     \A k \in MsgTypes : sink[k] + metrics[k] = counted[k]

\* The engine has counted a message between the flusher's write and its
\* clear.
C38_Witness ==
  /\ flusher = "written"
  /\ \E k \in MsgTypes : sink[k] < counted[k]

\* No increment is sent twice.
C38_NoneTwice ==
  (flusher = "sleep" /\ ~increment.active) =>
     \A k \in MsgTypes : sink[k] + metrics[k] <= counted[k]

\* ---------------------------------------------------------------------
\* DYNAMIC leases and the pool
\* ---------------------------------------------------------------------

\* C39: with a fixed pool configuration, every live DYNAMIC lease with a
\* non-null ip has its ip inside [pool_start, pool_end].
C39_DynamicInPool ==
  \A m \in MACS :
    (Live(leases, m) /\ leases[m].lease_type = "DYNAMIC" /\ leases[m].ip # NULL)
      => leases[m].ip \in Pool

\* set_dynamic has acted on a STATIC lease bound outside the pool.
C39_Witness ==
  \E m \in MACS :
    /\ Live(leases, m)
    /\ leases[m].lease_type = "STATIC"
    /\ leases[m].ip # NULL
    /\ leases[m].ip \notin Pool
    /\ LET r == route_set_dynamic(Store(leases), m, now).l[m]
       IN  r.lease_type = "DYNAMIC" /\ r.ip = leases[m].ip

\* ---------------------------------------------------------------------
\* prefer_ip and the order of the per-node timestamps
\* ---------------------------------------------------------------------

\* A stored timestamp, '%Y-%m-%d %H:%M:%S.%f', as <<MM, DD>>.
StoredStamps == {<<1, 2>>, <<2, 1>>}

\* format_date: strptime('%Y-%m-%d ...') and strftime('%d.%m.%Y ...'); None
\* for an empty value.
format_date(date_str) ==
  IF date_str = NoStamp THEN NoStamp ELSE <<date_str[2], date_str[1]>>

\* The instant of the per-node timestamp a = <<DD, MM>> is after that of b.
Later(a, b) == a[2] > b[2] \/ (a[2] = b[2] /\ a[1] > b[1])

\* The record out keeps for m is the chronologically latest of m's records.
KeepsLatest(out, m) ==
  \A i \in 1..Len(OfMac(Records, m)) :
    ~Later(Freshness(OfMac(Records, m)[i]), Freshness(OfMac(out, m)[1]))

\* C40: under prefer_ip, with upstream timestamps in the per-node format
\* DD.MM.YYYY HH:MM:SS, the record kept for each MAC is the one whose
\* expire_at (updated_at when expire_at is absent) is chronologically
\* latest, also for dates that differ in month.
C40_KeepsChronologicallyLatest ==
  (duplicate_mac_policy = "prefer_ip" /\ clients # <<>>) =>
     \A m \in MacsOf(Records) : KeepsLatest(clients, m)

\* Merged under prefer_ip: two upstreams listed one MAC with times, as
\* get_all_clients formats them, of which the one of the later month has
\* the lower day.
C40_Witness ==
  /\ duplicate_mac_policy = "prefer_ip"
  /\ clients # <<>>
  /\ \A i \in 1..Len(Records) :
       /\ Records[i].expire_at \in {format_date(s) : s \in {NoStamp} \cup StoredStamps}
       /\ Records[i].updated_at \in {format_date(s) : s \in StoredStamps}
  /\ \E i, j \in 1..Len(Records) :
       /\ Records[i].mac = Records[j].mac
       /\ Later(Freshness(Records[i]), Freshness(Records[j]))
       /\ StrGreater(Freshness(Records[j]), Freshness(Records[i]))

\* On timestamps of one month the kept record is the latest.
C40_LatestWithinMonth ==
  (duplicate_mac_policy = "prefer_ip" /\ clients # <<>>) =>
     \A m \in MacsOf(Records) :
       (\A i, j \in 1..Len(OfMac(Records, m)) :
          Freshness(OfMac(Records, m)[i])[2] = Freshness(OfMac(Records, m)[j])[2])
         => KeepsLatest(clients, m)

====
